---------------------------- MODULE Spec2Model ----------------------------
(***************************************************************************)
(* CityLink server: the dump-reporting module (reportDump and its store).  *)
(*                                                                         *)
(* The store is the PostgreSQL database behind Prisma.  Its committed      *)
(* tables are the variables reports, verifs, photoHashes and rep.  A       *)
(* request handler is a process; the statements of reportDump that run     *)
(* inside prisma.$transaction write into the process's private buffer      *)
(* (tx[p]) and become visible to other requests at Commit (READ COMMITTED, *)
(* the isolation level Prisma uses when none is asked for).  A statement   *)
(* that needs a row another open transaction has written is not enabled    *)
(* until that transaction ends (row and unique-key locks).  Two            *)
(* transactions waiting for each other, which PostgreSQL ends by aborting  *)
(* one, need four submissions and are not part of this model.              *)
(***************************************************************************)
EXTENDS Integers, Sequences, FiniteSets, Bags, TLC

VARIABLES
    reports,      \* dump_reports: sequence of committed rows, id = index
    verifs,       \* dump_verifications: committed rows, in insertion order
    photoHashes,  \* photo_hashes: committed rows
    rep,          \* reputation_scores: one row per user
    awards,       \* history: the committed reputationScore.upsert calls, (report, verifier)
    pc,           \* where each request handler is
    tx,           \* each handler's locals and uncommitted writes
    reqs,         \* history: every request received, with its response
    declarations, \* waste_declarations: committed rows, id = index
    collections,  \* collections: committed rows
    confirmations,\* agency_confirmations: committed rows
    transactions, \* recycling_transactions: committed rows
    wallets,      \* wallets: the balance of each user, or NoWallet
    rtx,          \* each recycling request handler's position and locals
    rreqs,        \* history: every recycling request, with its response
    mreqs,        \* history: every municipal dashboard request, with its response
    calc          \* a function of the code being applied: its arguments and result

vars == <<reports, verifs, photoHashes, rep, awards, pc, tx, reqs,
          declarations, collections, confirmations, transactions, wallets,
          rtx, rreqs, mreqs, calc>>

store == <<reports, verifs, photoHashes, rep>>

\* The tables of the recycling module.
ledger == <<declarations, collections, confirmations, transactions, wallets>>

\* Everything the recycling module's handlers read or write.
recycling == <<ledger, rtx, rreqs>>

\* Everything reportDump reads or writes.
dumps == <<store, awards, pc, tx, reqs>>

\* What neither module's write handlers touch.
aside == <<mreqs, calc>>

----------------------------------------------------------------------------
(* Bounds and inputs *)

\* Requests received in one behaviour.
MaxSubmits == 3

\* Request handlers running at the same time.
Procs == {1, 2}

Users == {"A", "B", "C"}

\* Coordinates in units of 1e-4 degree: (3.8480, 11.5021), a point about
\* 15 m from it and a point about 500 m from it.
Locs == { [lat |-> 38480, lon |-> 115021],
          [lat |-> 38481, lon |-> 115022],
          [lat |-> 38525, lon |-> 115021] }

\* Four points on a meridian, 56 m from one to the next: each is within
\* 100 m of its neighbours and more than 100 m from the others.
ChainLocs == {[lat |-> 38600 + 5 * n, lon |-> 115021] : n \in 0..3}

\* Submissions received in one behaviour of the chain of points.
MaxChain == 4

\* "" is a bare base64 string, otherwise the payload is a data URL
\* "data:image/<mime>;base64,<b64>".
Mimes == {"", "jpeg"}

\* A media type that is not a single word: "data:image/svg+xml;base64,...".
BadMime == "svg+xml"

\* A photo is [mime, b64]: b64 names the characters after the prefix.  A
\* positive b64 is the base64 text of an image, 200 characters long.
\* ShortBody is base64 text of 40 characters; GarbageBody is 200 characters
\* none of which is a base64 character ("!!!...!").
ShortBody == 0

GarbageBody == -1

\* The image bodies received so far.
SeenBodies == {b \in {reqs[k].photo.b64 : k \in 1..Len(reqs)} : b > 0}

\* The photo a request may carry: a new one (photo contents are
\* interchangeable, so new ones are taken in order and sent bare), or one
\* already sent, bare or as a data URL.
Photos ==
    {[mime |-> "", b64 |-> Cardinality(SeenBodies) + 1]}
    \cup {[mime |-> m, b64 |-> b] : m \in Mimes, b \in SeenBodies}

----------------------------------------------------------------------------
(* geoUtils *)

\* Earth's radius in metres.
EarthRadius == 6371000

\* Decimetres along a meridian per 1e-4 degree: R * (pi/180) * 1e-4 * 10,
\* with pi/180 = 17453293 / 10^9.
DmPerUnit == ((EarthRadius \div 1000) * 17453) \div 1000000

Abs(x) == IF x < 0 THEN -x ELSE x

Isqrt(x) == CHOOSE r \in 0..20000 : r * r <= x /\ x < (r + 1) * (r + 1)

\* The distance with the longitude difference taken for both terms.
calculateDistance_LonTwice(lat1, lon1, lat2, lon2) ==
    LET dlam == (lon2 - lon1) * DmPerUnit
    IN  Isqrt(dlam * dlam + dlam * dlam)

\* Math.sin of 0 to 90 degrees, times TrigScale.
TrigScale == 10000

SinTable ==
    <<0, 175, 349, 523, 698, 872, 1045, 1219, 1392, 1564,
      1736, 1908, 2079, 2250, 2419, 2588, 2756, 2924, 3090, 3256,
      3420, 3584, 3746, 3907, 4067, 4226, 4384, 4540, 4695, 4848,
      5000, 5150, 5299, 5446, 5592, 5736, 5878, 6018, 6157, 6293,
      6428, 6561, 6691, 6820, 6947, 7071, 7193, 7314, 7431, 7547,
      7660, 7771, 7880, 7986, 8090, 8192, 8290, 8387, 8480, 8572,
      8660, 8746, 8829, 8910, 8988, 9063, 9135, 9205, 9272, 9336,
      9397, 9455, 9511, 9563, 9613, 9659, 9703, 9744, 9781, 9816,
      9848, 9877, 9903, 9925, 9945, 9962, 9976, 9986, 9994, 9998,
      10000>>

\* Math.sin and Math.cos of a whole number of degrees between -180 and 180.
sinDeg(d) ==
    LET x == IF Abs(d) > 90 THEN 180 - Abs(d) ELSE Abs(d)
    IN  IF d < 0 THEN -SinTable[x + 1] ELSE SinTable[x + 1]

cosDeg(d) == sinDeg(90 - Abs(d))

\* Coordinates in 1e-4 degree that are a whole, even number of degrees.
EvenDegrees(x) == x % 20000 = 0

\* Lines 21-26 with the product of the cosines given: a, times TrigScale^2,
\* then c = 2 * atan2(sqrt(a), sqrt(1 - a)) in degrees (the angle whose
\* squared sine is a, to the degree below), then R * c in decimetres.
haversine(cosines, halfDphi, halfDlam) ==
    LET a == sinDeg(halfDphi) * sinDeg(halfDphi)
               + (cosines \div TrigScale)
                   * ((sinDeg(halfDlam) * sinDeg(halfDlam)) \div TrigScale)
        half == CHOOSE d \in 0..90 :
                    /\ SinTable[d + 1] * SinTable[d + 1] <= a
                    /\ d < 90 => a < SinTable[d + 2] * SinTable[d + 2]
    IN  2 * half * DmPerUnit * 10000

\* The distance with the cosine of the first latitude taken twice.
calculateDistance_FirstLatitude(lat1, lon1, lat2, lon2) ==
    haversine(cosDeg(lat1 \div 10000) * cosDeg(lat1 \div 10000),
              (lat2 - lat1) \div 20000, (lon2 - lon1) \div 20000)

\* Haversine distance, in decimetres, in fixed point.  For coordinates in
\* whole even degrees the sines and cosines are read from SinTable.  For
\* points less than a kilometre apart near latitude 3.85 N, a =
\* sin^2(dphi/2) + cos(phi1) cos(phi2) sin^2(dlambda/2) equals (dphi/2)^2 +
\* (dlambda/2)^2 to the precision kept here (cos^2(3.85 deg) = 0.9955), and
\* R * c = R * 2 * sqrt(a).
calculateDistance(lat1, lon1, lat2, lon2) ==
    IF \A x \in {lat1, lon1, lat2, lon2} : EvenDegrees(x)
    THEN haversine(cosDeg(lat1 \div 10000) * cosDeg(lat2 \div 10000),
                   (lat2 - lat1) \div 20000, (lon2 - lon1) \div 20000)
    ELSE LET dphi == (lat2 - lat1) * DmPerUnit
             dlam == (lon2 - lon1) * DmPerUnit
         IN  Isqrt(dphi * dphi + dlam * dlam)

isWithinRadius(lat1, lon1, lat2, lon2, radiusMeters) ==
    calculateDistance(lat1, lon1, lat2, lon2) <= radiusMeters * 10

\* parseFloat(process.env.GEO_CLUSTER_RADIUS || '100'), metres.
GEO_CLUSTER_RADIUS == 100

\* parseInt(process.env.REPUTATION_PER_VERIFIED_DUMP || '10')
REPUTATION_PER_VERIFIED == 10

\* isWithinRadius(..., GEO_CLUSTER_RADIUS) on the points of Locs and
\* ChainLocs, computed once.
Clustered == [a \in Locs \cup ChainLocs, b \in Locs \cup ChainLocs |->
                isWithinRadius(a.lat, a.lon, b.lat, b.lon, GEO_CLUSTER_RADIUS)]

----------------------------------------------------------------------------
(* photoHash *)

\* The media types \w+ matches.
WordMimes == {"jpeg"}

\* base64Data.length: 'data:image/', the media type and ';base64,' when
\* the payload is a data URL, then the body.
PayloadLength(photo) ==
    (IF photo.mime = "" THEN 0
     ELSE 11 + (IF photo.mime = "jpeg" THEN 4 ELSE 7) + 8)
        + (IF photo.b64 = ShortBody THEN 40 ELSE 200)

\* generatePhotoHash hashing the payload as received.
StripPrefix_Keeps(photo) == photo

\* base64Data.replace(/^data:image\/\w+;base64,/, ''): the payload without
\* its data-URL prefix, when the prefix matches.
StripPrefix(photo) ==
    IF photo.mime \in WordMimes THEN [photo EXCEPT !.mime = ""] ELSE photo

\* SHA-256 of the cleaned string: equal strings give equal digests and
\* different strings different ones.
generatePhotoHash(photo) == <<"sha256", StripPrefix(photo)>>

\* Buffer.from(text, 'base64') skips the characters that are not base64
\* and never throws, whatever the text.
BufferFromThrows(b64) == FALSE

\* isValidBase64Image: a payload that starts with 'data:image/' must match
\* /^data:image\/(\w+);base64,(.+)$/; every other payload is decoded in a
\* try block and is valid unless decoding throws.
isValidBase64Image(photo) ==
    IF photo.mime # ""
    THEN photo.mime \in WordMimes /\ ~BufferFromThrows(photo.b64)
    ELSE ~BufferFromThrows(photo.b64)

\* reportDumpSchema, in units of 1e-4 degree.
DumpSizes == {"SMALL", "MEDIUM", "LARGE"}

reportDumpSchema(body) ==
    /\ body.loc.lat >= -900000 /\ body.loc.lat <= 900000
    /\ body.loc.lon >= -1800000 /\ body.loc.lon <= 1800000
    /\ PayloadLength(body.photo) >= 100
    /\ body.size \in DumpSizes

----------------------------------------------------------------------------
(* The store *)

ReportIds == 1..Len(reports)

SeqToSet(s) == {s[k] : k \in 1..Len(s)}

RECURSIVE SelectSeqBy(_, _)
\* The rows of s whose dumpReportId is id, in order.
SelectSeqBy(s, id) ==
    IF s = <<>> THEN <<>>
    ELSE IF Head(s).dumpReportId = id
         THEN <<Head(s)>> \o SelectSeqBy(Tail(s), id)
         ELSE SelectSeqBy(Tail(s), id)

\* What a statement of transaction p reads: the committed rows and p's own
\* uncommitted ones.  0 is the id of p's own, not yet committed report.
VisibleVerifs(p, id) == SelectSeqBy(verifs, id) \o SelectSeqBy(tx[p].rows, id)

\* tx.dumpVerification.count({ where: { dumpReportId } })
CountVerifs(p, id) == Len(VisibleVerifs(p, id))

\* Number of committed verification rows of a report.
VerificationCount(id) == Len(SelectSeqBy(verifs, id))

\* Distinct users with a committed verification row for the report.
Verifiers(id) == {r.verifierId : r \in SeqToSet(SelectSeqBy(verifs, id))}

\* dump_verifications without its uniqueness constraint.
UniqueVerification_None(rows, id, u) == TRUE

\* photo_hashes without the uniqueness of hash.
UniqueHash_None(h) == TRUE

\* photo_hashes.hash is a unique column (it is the key of findUnique): an
\* insert of a hash some committed row already has is rejected.
UniqueHash(h) == \A k \in 1..Len(photoHashes) : photoHashes[k].hash # h

\* dump_verifications carries a uniqueness constraint on (dumpReportId,
\* verifierId): an insert of a pair some visible row already has is rejected.
UniqueVerification(rows, id, u) ==
    \A k \in 1..Len(rows) :
        ~(rows[k].dumpReportId = id /\ rows[k].verifierId = u)

----------------------------------------------------------------------------
(* Request handlers *)

IdleTx == [req |-> 0, hasPhoto |-> FALSE, nearby |-> <<>>, i |-> 0,
           rows |-> <<>>, statusUpd |-> {}, ownStatus |-> "",
           cur |-> 0, todo |-> <<>>, awardsBuf |-> EmptyBag, rid |-> 0]

Input(p) == reqs[tx[p].req]

\* The set of requests already answered.
Answered == {k \in 1..Len(reqs) : reqs[k].code # 0}

\* res.status(code).json(...) for request k.
Answer(k, code, error, count, verified, rid) ==
    reqs' = [reqs EXCEPT ![k].code = code, ![k].error = error,
                         ![k].verificationCount = count,
                         ![k].isVerified = verified, ![k].rid = rid]

\* The catch block after a transaction whose photoHash.create ran on prisma
\* instead of tx: the photo hash stays registered.
Rollback_KeepsPhoto(p) ==
    /\ Answer(tx[p].req, 500, "Failed to submit report", 0, FALSE, 0)
    /\ pc' = [pc EXCEPT ![p] = "idle"]
    /\ tx' = [tx EXCEPT ![p] = IdleTx]
    /\ photoHashes' = Append(photoHashes,
                         [hash |-> generatePhotoHash(Input(p).photo),
                          uploadedBy |-> Input(p).user])
    /\ UNCHANGED <<reports, verifs, rep, awards, recycling, aside>>

\* The catch block: the transaction is rolled back and the request answered
\* 500 'Failed to submit report'.
Rollback(p) ==
    /\ Answer(tx[p].req, 500, "Failed to submit report", 0, FALSE, 0)
    /\ pc' = [pc EXCEPT ![p] = "idle"]
    /\ tx' = [tx EXCEPT ![p] = IdleTx]
    /\ UNCHANGED <<reports, verifs, photoHashes, rep, awards, recycling, aside>>

(* Locks held by the other open transactions. *)

PhotoKeyHeld(p, h) ==
    \E q \in Procs \ {p} :
        tx[q].hasPhoto /\ generatePhotoHash(Input(q).photo) = h

VerifKeyHeld(p, id, u) ==
    \E q \in Procs \ {p} : ~UniqueVerification(tx[q].rows, id, u)

ReportLocked(p, id) == \E q \in Procs \ {p} : id \in tx[q].statusUpd

RepLocked(p, u) ==
    \E q \in Procs \ {p} :
        \E a \in BagToSet(tx[q].awardsBuf) : a.verifierId = u


\* Lines 37-39 looking only at the photo registered last.
existingPhoto_LastOnly(photoHash) ==
    photoHashes # <<>> /\ photoHashes[Len(photoHashes)].hash = photoHash

\* Lines 37-39: prisma.photoHash.findUnique({ where: { hash } }) finds a row.
existingPhoto(photoHash) ==
    \E k \in 1..Len(photoHashes) : photoHashes[k].hash = photoHash

\* Line 68 creating the report as VERIFIED.
InitialStatus_Verified == "VERIFIED"

\* Line 68: the status a report is created with.
InitialStatus == "UNVERIFIED"

\* Request bodies that pass validation: a point of Locs, a size, a photo of
\* Photos.
Bodies ==
    {[loc |-> l, size |-> "MEDIUM", photo |-> photo] : l \in Locs, photo \in Photos}

\* Request bodies with one field changed: a latitude above 90, a longitude
\* above 180, an unknown size, a short photo, a data URL of a media type
\* that is not a word, and a bare payload that is not base64 text.
OddBodies ==
    LET l == CHOOSE x \in Locs : TRUE
        photo == [mime |-> "", b64 |-> Cardinality(SeenBodies) + 1]
        ok == [loc |-> l, size |-> "MEDIUM", photo |-> photo]
    IN  { [ok EXCEPT !.loc.lat = 900001],
          [ok EXCEPT !.loc.lon = 1800001],
          [ok EXCEPT !.size = "HUGE"],
          [ok EXCEPT !.photo.b64 = ShortBody],
          [ok EXCEPT !.photo.mime = BadMime],
          [ok EXCEPT !.photo.b64 = GarbageBody] }

(* reportDump, lines 25-46, for the request of user u with the given body:
   parse, validate the photo, hash it, look the hash up.  The request is
   taken by the first free handler (handlers are interchangeable). *)
Receive(p, u, body) ==
    /\ pc[p] = "idle"
    /\ \A q \in Procs : q < p => pc[q] # "idle"
    /\ LET req == [user |-> u, loc |-> body.loc, size |-> body.size,
                   photo |-> body.photo,
                   description |-> IF "description" \in DOMAIN body
                                   THEN body.description ELSE "",
                   prior |-> Answered, clustered |-> <<>>,
                   code |-> 0, error |-> "", verificationCount |-> 0,
                   isVerified |-> FALSE, rid |-> 0]
       IN  IF ~reportDumpSchema(body)
           THEN /\ reqs' = Append(reqs, [req EXCEPT !.code = 400,
                                           !.error = "Validation failed"])
                /\ UNCHANGED <<pc, tx>>
           ELSE IF ~isValidBase64Image(body.photo)
           THEN /\ reqs' = Append(reqs, [req EXCEPT !.code = 400,
                                           !.error = "Invalid photo format"])
                /\ UNCHANGED <<pc, tx>>
           ELSE IF existingPhoto(generatePhotoHash(body.photo))
           THEN /\ reqs' = Append(reqs, [req EXCEPT !.code = 400,
                                           !.error = "Photo already used"])
                /\ UNCHANGED <<pc, tx>>
           ELSE /\ reqs' = Append(reqs, req)
                /\ pc' = [pc EXCEPT ![p] = "begin"]
                /\ tx' = [tx EXCEPT ![p] = [IdleTx EXCEPT !.req = Len(reqs) + 1]]
    /\ UNCHANGED <<reports, verifs, photoHashes, rep, awards, recycling, aside>>

(* A request whose body passes validation. *)
Submit(p) ==
    /\ Len(reqs) < MaxSubmits
    /\ \E u \in Users, body \in Bodies : Receive(p, u, body)

(* A request with any body. *)
SubmitAny(p) ==
    /\ Len(reqs) < MaxSubmits
    /\ \E u \in Users, body \in Bodies \cup OddBodies : Receive(p, u, body)

\* Lines 86-91 left out: the reporter is not recorded as a verifier.
SelfVerification_None(reporterId) == <<>>

\* Lines 86-91: the verification row of the reporter for the new report.
SelfVerification(reporterId) ==
    <<[dumpReportId |-> 0, verifierId |-> reporterId]>>

(* Lines 49-91: the transaction starts; the photo hash, the report and the
   reporter's own verification are inserted. *)
BeginTx(p) ==
    /\ pc[p] = "begin"
    /\ ~PhotoKeyHeld(p, generatePhotoHash(Input(p).photo))
    /\ UniqueHash(generatePhotoHash(Input(p).photo))
    /\ tx' = [tx EXCEPT ![p].hasPhoto = TRUE,
                        ![p].ownStatus = InitialStatus,
                        ![p].rows = SelfVerification(Input(p).user)]
    /\ pc' = [pc EXCEPT ![p] = "find"]
    /\ UNCHANGED <<reports, verifs, photoHashes, rep, awards, reqs, recycling, aside>>

(* Line 51 when the hash was registered after the lookup of line 37: the
   insert violates the unique column and throws. *)
PhotoConflict(p) ==
    /\ pc[p] = "begin"
    /\ ~PhotoKeyHeld(p, generatePhotoHash(Input(p).photo))
    /\ ~UniqueHash(generatePhotoHash(Input(p).photo))
    /\ Rollback(p)

\* Lines 95-99 without the test of line 97: reports of any user.
IsClustered_AnyUser(id, u, l) ==
    /\ reports[id].status \in {"UNVERIFIED", "VERIFIED"}
    /\ Clustered[l, reports[id].loc]

\* Lines 95-114 with a filter on the size of the report: SMALL reports are
\* not candidates.
IsClustered_NotSmall(id, u, l) ==
    /\ reports[id].reporterId # u
    /\ reports[id].status \in {"UNVERIFIED", "VERIFIED"}
    /\ reports[id].size # "SMALL"
    /\ Clustered[l, reports[id].loc]

\* The where clause of line 95-99 and the filter of lines 106-114.
IsClustered(id, u, l) ==
    /\ reports[id].reporterId # u
    /\ reports[id].status \in {"UNVERIFIED", "VERIFIED"}
    /\ Clustered[l, reports[id].loc]

ClusteredIds(u, l) == {id \in ReportIds : IsClustered(id, u, l)}

\* The orders in which findMany may return the rows of S.
Orders(S) ==
    {o \in [1..Cardinality(S) -> S] :
        \A a, b \in 1..Cardinality(S) : a # b => o[a] # o[b]}

(* Lines 94-117: the candidate reports, each with its verifications. *)
FindNearby(p) ==
    /\ pc[p] = "find"
    /\ \E o \in Orders(ClusteredIds(Input(p).user, Input(p).loc)) :
        LET nearby == [j \in 1..Len(o) |->
                         [id |-> o[j],
                          reporterId |-> reports[o[j]].reporterId,
                          status |-> reports[o[j]].status,
                          verifierIds |-> {r.verifierId :
                              r \in SeqToSet(VisibleVerifs(p, o[j]))}]]
        IN  /\ tx' = [tx EXCEPT ![p].nearby = nearby,
                                ![p].i = IF nearby = <<>> THEN 0 ELSE 1]
            /\ pc' = [pc EXCEPT ![p] = IF nearby = <<>> THEN "commit" ELSE "verify"]
            /\ reqs' = [reqs EXCEPT ![tx[p].req].clustered =
                            [j \in 1..Len(o) |-> reports[o[j]].reporterId]]
    /\ UNCHANGED <<reports, verifs, photoHashes, rep, awards, recycling, aside>>

\* The report the first loop is at.
Cur(p) == tx[p].nearby[tx[p].i]

\* Lines 121-123 never finding the reporter among the verifiers.
alreadyVerified_Never(nearbyReport, reporterId) == FALSE

\* Lines 121-123.
alreadyVerified(nearbyReport, reporterId) ==
    reporterId \in nearbyReport.verifierIds

\* Line 139 without the test of the report's status.
CrossesThreshold_IgnoresStatus(verificationCount, status) ==
    verificationCount >= 2

\* Line 139 with a threshold of three verifications.
CrossesThreshold_Three(verificationCount, status) ==
    verificationCount >= 3 /\ status = "UNVERIFIED"

\* Line 139.
CrossesThreshold(verificationCount, status) ==
    verificationCount >= 2 /\ status = "UNVERIFIED"

\* Line 186 with a threshold of three verifications.
CurrentCrossesThreshold_Three(currentVerificationCount) ==
    currentVerificationCount >= 3

\* Line 186.
CurrentCrossesThreshold(currentVerificationCount) ==
    currentVerificationCount >= 2

\* The loop of line 119 left after its first iteration.
NextNearby_Break(p, t) ==
    /\ tx' = [tx EXCEPT ![p] = [t EXCEPT !.cur = 0]]
    /\ pc' = [pc EXCEPT ![p] = "cross"]

\* The next iteration of the loop of line 119, or the loop of line 171.
NextNearby(p, t) ==
    IF t.i < Len(t.nearby)
    THEN /\ tx' = [tx EXCEPT ![p] = [t EXCEPT !.i = t.i + 1, !.cur = 0]]
         /\ pc' = [pc EXCEPT ![p] = "verify"]
    ELSE /\ tx' = [tx EXCEPT ![p] = [t EXCEPT !.cur = 0]]
         /\ pc' = [pc EXCEPT ![p] = "cross"]

(* Line 125, the reporter already verified this report: nothing is done. *)
SkipVerified(p) ==
    /\ pc[p] = "verify"
    /\ alreadyVerified(Cur(p), Input(p).user)
    /\ NextNearby(p, tx[p])
    /\ UNCHANGED <<reports, verifs, photoHashes, rep, awards, reqs, recycling, aside>>

(* Lines 126-139: the verification of a nearby report is inserted and the
   report's verifications are counted. *)
CreateVerification(p) ==
    /\ pc[p] = "verify"
    /\ ~alreadyVerified(Cur(p), Input(p).user)
    /\ ~VerifKeyHeld(p, Cur(p).id, Input(p).user)
    /\ UniqueVerification(verifs \o tx[p].rows, Cur(p).id, Input(p).user)
    /\ LET rows == Append(tx[p].rows, [dumpReportId |-> Cur(p).id,
                                       verifierId |-> Input(p).user])
           verificationCount == Len(SelectSeqBy(verifs, Cur(p).id))
                                + Len(SelectSeqBy(rows, Cur(p).id))
           t == [tx[p] EXCEPT !.rows = rows]
       IN  IF CrossesThreshold(verificationCount, Cur(p).status)
           THEN /\ tx' = [tx EXCEPT ![p] = t]
                /\ pc' = [pc EXCEPT ![p] = "update"]
           ELSE NextNearby(p, t)
    /\ UNCHANGED <<reports, verifs, photoHashes, rep, awards, reqs, recycling, aside>>

(* Line 126 when the pair was committed after the read of line 94: the
   insert violates the uniqueness constraint and throws. *)
VerifConflict(p) ==
    /\ pc[p] = "verify"
    /\ ~alreadyVerified(Cur(p), Input(p).user)
    /\ ~VerifKeyHeld(p, Cur(p).id, Input(p).user)
    /\ ~UniqueVerification(verifs \o tx[p].rows, Cur(p).id, Input(p).user)
    /\ Rollback(p)

\* Lines 146-149 reading the first verification row only.
VerifierIdsOf_First(rows) == <<rows[1].verifierId>>

VerifierIdsOf(rows) == [k \in 1..Len(rows) |-> rows[k].verifierId]

(* Lines 140-149: the nearby report is marked VERIFIED and its verifiers
   are read. *)
UpdateStatus(p) ==
    /\ pc[p] = "update"
    /\ ~ReportLocked(p, Cur(p).id)
    /\ tx' = [tx EXCEPT ![p].statusUpd = @ \cup {Cur(p).id},
                        ![p].cur = Cur(p).id,
                        ![p].todo = VerifierIdsOf(VisibleVerifs(p, Cur(p).id))]
    /\ pc' = [pc EXCEPT ![p] = "award"]
    /\ UNCHANGED <<reports, verifs, photoHashes, rep, awards, reqs, recycling, aside>>

(* Lines 151-164 and 198-211: one reputationScore.upsert of the loop. *)
Award(p) ==
    /\ pc[p] = "award"
    /\ tx[p].todo # <<>>
    /\ ~RepLocked(p, Head(tx[p].todo))
    /\ LET t == [tx[p] EXCEPT
                    !.todo = Tail(@),
                    !.awardsBuf = @ (+) SetToBag({[dumpReportId |-> tx[p].cur,
                                                   verifierId |-> Head(tx[p].todo)]})]
       IN  IF t.todo # <<>>
           THEN tx' = [tx EXCEPT ![p] = t] /\ UNCHANGED pc
           ELSE IF tx[p].cur = 0
                THEN /\ tx' = [tx EXCEPT ![p] = t]
                     /\ pc' = [pc EXCEPT ![p] = "commit"]
                ELSE NextNearby(p, t)
    /\ UNCHANGED <<reports, verifs, photoHashes, rep, awards, reqs, recycling, aside>>

\* Lines 171-178 left out: no author of a nearby report is recorded.
CrossRows_None(p) == <<>>

\* The rows the loop of lines 171-178 inserts.
CrossRows(p) ==
    [j \in 1..Len(tx[p].nearby) |->
        [dumpReportId |-> 0, verifierId |-> tx[p].nearby[j].reporterId]]

\* Every insert of the loop passes the uniqueness constraint.
CrossUnique(p) ==
    \A j \in 1..Len(tx[p].nearby) :
        UniqueVerification(tx[p].rows \o SubSeq(CrossRows(p), 1, j - 1),
                           0, tx[p].nearby[j].reporterId)

(* Lines 171-196: the authors of the nearby reports are recorded as
   verifiers of the new report, its verifications are counted, and with two
   or more it is marked VERIFIED and its verifiers are read. *)
CrossVerify(p) ==
    /\ pc[p] = "cross"
    /\ CrossUnique(p)
    /\ LET rows == tx[p].rows \o CrossRows(p)
           own == SelectSeqBy(rows, 0)
       IN  IF CurrentCrossesThreshold(Len(own))
           THEN /\ tx' = [tx EXCEPT ![p].rows = rows,
                                    ![p].ownStatus = "VERIFIED",
                                    ![p].cur = 0,
                                    ![p].todo = VerifierIdsOf(own)]
                /\ pc' = [pc EXCEPT ![p] = "award"]
           ELSE /\ tx' = [tx EXCEPT ![p].rows = rows]
                /\ pc' = [pc EXCEPT ![p] = "commit"]
    /\ UNCHANGED <<reports, verifs, photoHashes, rep, awards, reqs, recycling, aside>>

(* Line 172 for a second nearby report of the same author: the insert
   violates the uniqueness constraint and throws. *)
CrossVerifyConflict(p) ==
    /\ pc[p] = "cross"
    /\ ~CrossUnique(p)
    /\ Rollback(p)


RECURSIVE SumOver(_, _)
\* The sum of f[x] over the elements x of S.
SumOver(f, S) ==
    IF S = {} THEN 0
    ELSE LET x == CHOOSE y \in S : TRUE
         IN  f[x] + SumOver(f, S \ {x})

\* How many upserts the transaction ran on the row of user u.
UpsertCount(buf, u) ==
    SumOver(buf, {a \in DOMAIN buf : a.verifierId = u})

\* Lines 152-163 incrementing the score and not verifiedReports.
Upsert_ScoreOnly(row, n) ==
    [row EXCEPT !.score = @ + n * REPUTATION_PER_VERIFIED]

\* Lines 152-163 setting the score instead of incrementing it.
Upsert_Sets(row, n) ==
    IF n = 0 THEN row
    ELSE [row EXCEPT !.score = REPUTATION_PER_VERIFIED, !.verifiedReports = 1]

\* Lines 152-163 and 199-210, run n times on a user's row: the row is
\* created with score REPUTATION_PER_VERIFIED and verifiedReports 1, or both
\* are incremented.
Upsert(row, n) ==
    [row EXCEPT !.score = @ + n * REPUTATION_PER_VERIFIED,
                !.verifiedReports = @ + n]

\* A buffered row with the id the new report gets at commit.
WithId(row, k) ==
    IF row.dumpReportId = 0 THEN [row EXCEPT !.dumpReportId = k] ELSE row

\* Lines 140-143 writing a status to every report: VERIFIED to those that
\* crossed the threshold, UNVERIFIED to the others.
CommittedStatus_Rewrites(row, id, t) ==
    IF id \in t.statusUpd THEN "VERIFIED" ELSE "UNVERIFIED"

\* Lines 140-143 at commit: the status of committed report id after
\* transaction t.
CommittedStatus(row, id, t) ==
    IF id \in t.statusUpd THEN "VERIFIED" ELSE row.status

\* The inserted rows replacing the rows of the table.
InsertRows_Replace(table, rows) == rows

\* Lines 86-91, 126-131 and 172-177 at commit: dumpVerification.create adds
\* rows to the table; the transaction has no update or delete of this table.
InsertRows(table, rows) == table \o rows

(* Line 216: the transaction commits; its writes become visible. *)
Commit(p) ==
    /\ pc[p] = "commit"
    /\ LET k == Len(reports) + 1
           t == tx[p]
           new == [reporterId |-> Input(p).user, loc |-> Input(p).loc,
                   size |-> Input(p).size,
                   description |-> Input(p).description,
                   photoHash |-> generatePhotoHash(Input(p).photo),
                   status |-> t.ownStatus]
       IN  /\ reports' = [id \in 1..k |->
                            IF id = k THEN new
                            ELSE [reports[id] EXCEPT !.status =
                                     CommittedStatus(reports[id], id, t)]]
           /\ verifs' = InsertRows(verifs,
                                [j \in 1..Len(t.rows) |-> WithId(t.rows[j], k)])
           /\ photoHashes' = Append(photoHashes,
                                [hash |-> generatePhotoHash(Input(p).photo),
                                 uploadedBy |-> Input(p).user])
           /\ rep' = [u \in Users |-> Upsert(rep[u], UpsertCount(t.awardsBuf, u))]
           /\ awards' = awards (+)
                  [a \in {WithId(x, k) : x \in DOMAIN t.awardsBuf} |->
                      t.awardsBuf[IF a.dumpReportId = k
                                  THEN [a EXCEPT !.dumpReportId = 0] ELSE a]]
           /\ tx' = [tx EXCEPT ![p] = [IdleTx EXCEPT !.req = t.req, !.rid = k]]
           /\ pc' = [pc EXCEPT ![p] = "fetch"]
    /\ UNCHANGED <<reqs, recycling, aside>>

(* Lines 219-246: the report is read back and the request answered 201. *)
Respond(p) ==
    /\ pc[p] = "fetch"
    /\ Answer(tx[p].req, 201, "", VerificationCount(tx[p].rid),
              reports[tx[p].rid].status = "VERIFIED", tx[p].rid)
    /\ pc' = [pc EXCEPT ![p] = "idle"]
    /\ tx' = [tx EXCEPT ![p] = IdleTx]
    /\ UNCHANGED <<reports, verifs, photoHashes, rep, awards, recycling, aside>>

----------------------------------------------------------------------------
(* The recycling module: declareWaste, confirmPickup, validateWeight *)

\* Recycling requests received in one behaviour.
MaxRecycle == 4

\* A user of the municipal dashboard.
Staff == {"M"}

\* Every registered user.
Accounts == Users \cup Staff

\* The role each user registered with.
Role == [u \in Accounts |->
            IF u = "A" THEN "CITIZEN"
            ELSE IF u = "B" THEN "COLLECTOR"
            ELSE IF u = "C" THEN "AGENCY" ELSE "MUNICIPAL"]

\* wallets[u] of a user who has no wallet row.
NoWallet == -1

\* declareWasteSchema.wasteType, and a type it does not list.
WasteTypes == {"PET", "ALUMINUM", "HDPE"}

WasteInputs == {"PET", "ALUMINUM", "GLASS"}

\* validateSchema.confirmedKg: a number that is not positive and one that is.
KgInputs == {0, 2}

\* Price per kg by waste type.
getPricePerKg(wasteType) ==
    IF wasteType = "PET" THEN 500
    ELSE IF wasteType = "ALUMINUM" THEN 800
    ELSE IF wasteType = "HDPE" THEN 600
    ELSE 0

\* parseFloat(process.env.COLLECTOR_PERCENTAGE || '50') and the two others.
collectorPercentage == 50

citizenPercentage == 20

citylinkPercentage == 30

\* No function is being applied.
NoCalc == [fn |-> "none"]

IdleR == [pc |-> "idle", req |-> 0, collectorId |-> "", citizenId |-> "",
          wasteType |-> ""]

RInput(p) == rreqs[rtx[p].req]

\* requireRole letting every role through.
requireRole_Any(u, allowedRoles) == TRUE

\* requireRole(...allowedRoles)
requireRole(u, allowedRoles) == Role[u] \in allowedRoles

\* res.status(code).json(...) for the request handler p is at.
RAnswer(p, code, error) ==
    /\ rreqs' = [rreqs EXCEPT ![rtx[p].req].code = code,
                             ![rtx[p].req].error = error]
    /\ rtx' = [rtx EXCEPT ![p] = IdleR]

\* A request answered in the step that receives it.
RAnswerAtOnce(req, code, error) ==
    /\ rreqs' = Append(rreqs, [req EXCEPT !.code = code, !.error = error])
    /\ UNCHANGED rtx

\* A recycling request as received.
RRequest(op, u, id, wasteType, kg) ==
    [op |-> op, user |-> u, id |-> id, wasteType |-> wasteType, kg |-> kg,
     code |-> 0, error |-> ""]

\* tx.wallet.upsert: the row is created with the amount, or incremented.
walletUpsert(w, u, amount) ==
    [w EXCEPT ![u] = IF @ = NoWallet THEN amount ELSE @ + amount]

\* include: { collection: true }: the declaration has a collection.
CollectionExists(id) ==
    \E n \in 1..Len(collections) : collections[n].declarationId = id

\* agency_confirmations without the uniqueness of declarationId.
UniqueConfirmation_None(id) == TRUE

\* WasteDeclaration.collection is a single record (declaration.collection
\* .collectorId), a one-to-one relation: collections.declarationId is unique
\* and an insert of a second collection for a declaration is rejected.
UniqueCollection(id) ==
    \A n \in 1..Len(collections) : collections[n].declarationId # id

\* WasteDeclaration.agencyConfirmation is named as a single record, like
\* collection: agency_confirmations.declarationId is unique.
UniqueConfirmation(id) ==
    \A n \in 1..Len(confirmations) : confirmations[n].declarationId # id

\* Line 103 letting every status through.
PickupAllowed_Any(status) == TRUE

\* Line 103: only PENDING declarations can be picked up.
PickupAllowed(status) == status = "PENDING"

\* Line 162: only PICKED_UP declarations can be validated.
ValidateAllowed(status) == status = "PICKED_UP"

(* declareWaste, behind requireRole('CITIZEN'), for user u's request. *)
DeclareFor(p, u, wasteType) ==
    /\ rtx[p].pc = "idle"
    /\ Len(rreqs) < MaxRecycle
    /\ LET req == RRequest("declare", u, 0, wasteType, 0)
        IN  IF ~requireRole(u, {"CITIZEN"})
            THEN RAnswerAtOnce(req, 403, "Forbidden") /\ UNCHANGED ledger
            ELSE IF wasteType \notin WasteTypes
            THEN RAnswerAtOnce(req, 400, "Validation failed") /\ UNCHANGED ledger
            ELSE /\ declarations' = Append(declarations,
                                      [citizenId |-> u, wasteType |-> wasteType,
                                       status |-> "PENDING"])
                 /\ RAnswerAtOnce([req EXCEPT !.id = Len(declarations) + 1], 201, "")
                 /\ UNCHANGED <<collections, confirmations, transactions, wallets>>
    /\ UNCHANGED <<dumps, aside>>

declareWaste(p) ==
    \E u \in Users, wasteType \in WasteInputs : DeclareFor(p, u, wasteType)

(* confirmPickup, lines 90-108, behind requireRole('COLLECTOR'), for user
   u's request: the declaration is read and its status tested. *)
PickupFor(p, u, id) ==
    /\ rtx[p].pc = "idle"
    /\ Len(rreqs) < MaxRecycle
    /\ LET req == RRequest("pickup", u, id, "", 0)
        IN  IF ~requireRole(u, {"COLLECTOR"})
            THEN RAnswerAtOnce(req, 403, "Forbidden")
            ELSE IF id \notin 1..Len(declarations)
            THEN RAnswerAtOnce(req, 404, "Declaration not found")
            ELSE IF ~PickupAllowed(declarations[id].status)
            THEN RAnswerAtOnce(req, 400, "Invalid status")
            ELSE /\ rreqs' = Append(rreqs, req)
                 /\ rtx' = [rtx EXCEPT ![p] =
                               [IdleR EXCEPT !.pc = "pickupTx",
                                             !.req = Len(rreqs) + 1]]
    /\ UNCHANGED <<ledger, dumps, aside>>

\* The declaration ids a request may name: the known ones and an unknown one.
IdInputs == 1..(Len(declarations) + 1)

confirmPickup(p) ==
    \E u \in Users, id \in IdInputs : PickupFor(p, u, id)

(* confirmPickup, lines 111-131: the transaction that inserts the collection
   and sets the status.  Its statements read nothing, so it is one step, at
   its commit. *)
pickupTx(p) ==
    /\ rtx[p].pc = "pickupTx"
    /\ IF ~UniqueCollection(RInput(p).id)
       THEN RAnswer(p, 500, "Failed to confirm pickup") /\ UNCHANGED ledger
       ELSE /\ collections' = Append(collections,
                                [declarationId |-> RInput(p).id,
                                 collectorId |-> RInput(p).user])
            /\ declarations' = [declarations EXCEPT
                                   ![RInput(p).id].status = "PICKED_UP"]
            /\ RAnswer(p, 200, "")
            /\ UNCHANGED <<confirmations, transactions, wallets>>
    /\ UNCHANGED <<dumps, aside>>

(* validateWeight, lines 146-174, behind requireRole('AGENCY'), for user
   u's request: the body is parsed, the declaration is read with its
   collection and tested. *)
ValidateFor(p, u, id, kg) ==
    /\ rtx[p].pc = "idle"
    /\ Len(rreqs) < MaxRecycle
    /\ LET req == RRequest("validate", u, id, "", kg)
        IN  IF ~requireRole(u, {"AGENCY"})
            THEN RAnswerAtOnce(req, 403, "Forbidden")
            ELSE IF ~(kg > 0)
            THEN RAnswerAtOnce(req, 400, "Validation failed")
            ELSE IF id \notin 1..Len(declarations)
            THEN RAnswerAtOnce(req, 404, "Declaration not found")
            ELSE IF ~ValidateAllowed(declarations[id].status)
            THEN RAnswerAtOnce(req, 400, "Invalid status")
            ELSE IF ~CollectionExists(id)
            THEN RAnswerAtOnce(req, 400, "No collection record found")
            ELSE /\ rreqs' = Append(rreqs, req)
                 /\ rtx' = [rtx EXCEPT ![p] =
                       [pc |-> "validateTx", req |-> Len(rreqs) + 1,
                        collectorId |->
                            (CHOOSE c \in SeqToSet(collections) :
                                 c.declarationId = id).collectorId,
                        citizenId |-> declarations[id].citizenId,
                        wasteType |-> declarations[id].wasteType]]
    /\ UNCHANGED <<ledger, dumps, aside>>

validateWeight(p) ==
    \E u \in Users, id \in IdInputs, kg \in KgInputs : ValidateFor(p, u, id, kg)

\* Lines 177-186: the payment split of a declaration.
Split(wasteType, confirmedKg) ==
    LET totalValue == confirmedKg * getPricePerKg(wasteType)
    IN  [totalAmount |-> totalValue,
         collectorAmount |-> (totalValue * collectorPercentage) \div 100,
         citizenAmount |-> (totalValue * citizenPercentage) \div 100,
         citylinkAmount |-> (totalValue * citylinkPercentage) \div 100]

\* The transaction of validateWeight also adding the citizen's share to the
\* citizen's reputation score.
validateTx_AwardsReputation(p) ==
    /\ rtx[p].pc = "validateTx"
    /\ LET split == Split(rtx[p].wasteType, RInput(p).kg)
       IN  /\ confirmations' = Append(confirmations,
                   [declarationId |-> RInput(p).id,
                    agencyId |-> RInput(p).user,
                    confirmedKg |-> RInput(p).kg,
                    totalValue |-> split.totalAmount])
           /\ transactions' = Append(transactions,
                   [declarationId |-> RInput(p).id] @@ split)
           /\ wallets' = walletUpsert(wallets, rtx[p].collectorId,
                                      split.collectorAmount)
           /\ rep' = [rep EXCEPT ![rtx[p].citizenId].score =
                                     @ + split.citizenAmount]
           /\ declarations' = [declarations EXCEPT
                                  ![RInput(p).id].status = "COMPLETED"]
           /\ RAnswer(p, 200, "")
           /\ UNCHANGED collections
    /\ UNCHANGED <<reports, verifs, photoHashes, awards, pc, tx, reqs, aside>>

(* validateWeight, lines 189-259: the transaction that inserts the
   confirmation and the recycling transaction, credits the two wallets and
   sets the status.  Its statements read nothing, so it is one step, at its
   commit. *)
validateTx(p) ==
    /\ rtx[p].pc = "validateTx"
    /\ IF ~UniqueConfirmation(RInput(p).id)
       THEN RAnswer(p, 500, "Failed to validate weight") /\ UNCHANGED ledger
       ELSE LET split == Split(rtx[p].wasteType, RInput(p).kg)
            IN  /\ confirmations' = Append(confirmations,
                        [declarationId |-> RInput(p).id,
                         agencyId |-> RInput(p).user,
                         confirmedKg |-> RInput(p).kg,
                         totalValue |-> split.totalAmount])
                /\ transactions' = Append(transactions,
                        [declarationId |-> RInput(p).id] @@ split)
                /\ wallets' = walletUpsert(
                                 walletUpsert(wallets, rtx[p].collectorId,
                                              split.collectorAmount),
                                 rtx[p].citizenId, split.citizenAmount)
                /\ declarations' = [declarations EXCEPT
                                       ![RInput(p).id].status = "COMPLETED"]
                /\ RAnswer(p, 200, "")
                /\ UNCHANGED collections
    /\ UNCHANGED <<dumps, aside>>

----------------------------------------------------------------------------
(* The auth middleware and the municipal dashboard *)

\* What the Authorization header carries: nothing, a token jwt.verify
\* rejects (malformed, wrongly signed or expired), a verified token whose
\* userId is in no users row, or a verified token of a registered user,
\* named by the userId.
NoToken == "none"

BadToken == "bad"

GhostToken == "ghost"

Tokens == {NoToken, BadToken, GhostToken} \cup Accounts

\* authenticate: the error it answers with, or req.user.
authenticate(token) ==
    IF token = NoToken
    THEN [code |-> 401, error |-> "No token provided", user |-> ""]
    ELSE IF token = BadToken
    THEN [code |-> 401, error |-> "Invalid token", user |-> ""]
    ELSE IF token \notin Accounts
    THEN [code |-> 401, error |-> "User not found", user |-> ""]
    ELSE [code |-> 0, error |-> "", user |-> token]

\* Municipal dashboard requests received in one behaviour.
MaxQueries == 1

Endpoints == {"heatmap", "density", "dumps"}

\* req.query: "" and 0 stand for a parameter that is absent.  A date is
\* named by the report created at that time.
Queries ==
    [status : {"", "VERIFIED", "UNVERIFIED"}, size : {"", "LARGE"},
     startDate : {0, 2}, endDate : {0, 2}]

NoQuery == [status |-> "", size |-> "", startDate |-> 0, endDate |-> 0]

\* The parameters each handler reads.
QueriesOf(endpoint) ==
    {q \in Queries :
        /\ endpoint # "dumps" => q.status = "" /\ q.size = ""
        /\ endpoint = "density" => q.startDate = 0 /\ q.endDate = 0}

\* where.createdAt = { gte: startDate, lte: endDate }; report id was created
\* at time id.
InDateRange(id, query) ==
    /\ query.startDate # 0 => id >= query.startDate
    /\ query.endDate # 0 => id <= query.endDate

\* getHeatmap: the dumps it returns.
getHeatmap(query) ==
    {id \in ReportIds :
        reports[id].status = "VERIFIED" /\ InDateRange(id, query)}

\* getDensity: the dumps it counts into grid cells.
getDensity(query) ==
    {id \in ReportIds : reports[id].status = "VERIFIED"}

\* getVerifiedDumps: the dumps it returns.
getVerifiedDumps(query) ==
    {id \in ReportIds :
        /\ query.size # "" => reports[id].size = query.size
        /\ reports[id].status = (IF query.status # "" THEN query.status
                                 ELSE "VERIFIED")
        /\ InDateRange(id, query)}

\* The rows of a response: each dump with the status it is returned with.
Returned(ids) == {[id |-> id, status |-> reports[id].status] : id \in ids}

(* A request to /api/municipal: authenticate, requireRole('MUNICIPAL'),
   then the handler of the endpoint, which reads the reports once. *)
MunicipalFor(token, endpoint, query) ==
    /\ Len(mreqs) < MaxQueries
    /\ LET auth == authenticate(token)
           req == [endpoint |-> endpoint, token |-> token, query |-> query,
                   code |-> 0, error |-> "", dumps |-> {}]
       IN  mreqs' = Append(mreqs,
               IF auth.code # 0
               THEN [req EXCEPT !.code = auth.code, !.error = auth.error]
               ELSE IF ~requireRole(auth.user, {"MUNICIPAL"})
               THEN [req EXCEPT !.code = 403, !.error = "Forbidden"]
               ELSE [req EXCEPT !.code = 200,
                                !.dumps = Returned(
                                    IF endpoint = "heatmap" THEN getHeatmap(query)
                                    ELSE IF endpoint = "density" THEN getDensity(query)
                                    ELSE getVerifiedDumps(query))])
    /\ UNCHANGED <<dumps, recycling, calc>>

(* The read endpoints of /api/dumps: getDumps, getDumpById, getUserReputation *)

\* Read requests of /api/dumps and /api/municipal in one behaviour.
MaxReads == 2

\* req.query of getDumps: "" stands for a parameter that is absent.
DumpQueries == [status : {"", "VERIFIED", "UNVERIFIED"}, myReports : {"", "true"}]

\* The answer of getUserReputation when the user has no row.
NoReputation == [score |-> 0, verifiedReports |-> 0, falseReports |-> 0]

\* The response of a read endpoint of /api/dumps, added to the requests.
ReadAnswer(endpoint, u, query, code, error, found, reputation) ==
    /\ Len(mreqs) < MaxReads
    /\ mreqs' = Append(mreqs, [endpoint |-> endpoint, token |-> u,
                               query |-> query, code |-> code, error |-> error,
                               dumps |-> Returned(found),
                               reputation |-> reputation])
    /\ UNCHANGED <<dumps, recycling, calc>>

(* getDumps: the reports that pass the status and myReports filters. *)
getDumps(u, query) ==
    ReadAnswer("getDumps", u, query, 200, "",
               {id \in ReportIds :
                   /\ query.status # "" => reports[id].status = query.status
                   /\ query.myReports = "true" => reports[id].reporterId = u},
               NoReputation)

(* getDumpById: the report with this id, or 404. *)
getDumpById(u, id) ==
    IF id \in ReportIds
    THEN ReadAnswer("getDumpById", u, [id |-> id], 200, "", {id}, NoReputation)
    ELSE ReadAnswer("getDumpById", u, [id |-> id], 404, "Dump report not found",
                    {}, NoReputation)

\* getUserReputation creating the row it does not find.
getUserReputation_Creates(u) ==
    /\ Len(mreqs) < MaxReads
    /\ mreqs' = Append(mreqs, [endpoint |-> "getUserReputation", token |-> u,
                               query |-> NoQuery, code |-> 200,
                               error |-> "", dumps |-> {},
                               reputation |-> IF u \in DOMAIN rep THEN rep[u]
                                              ELSE NoReputation])
    /\ rep' = IF u \in DOMAIN rep THEN rep ELSE rep @@ (u :> NoReputation)
    /\ UNCHANGED <<reports, verifs, photoHashes, awards, pc, tx, reqs,
                   recycling, calc>>

(* getUserReputation: the user's row, or zeros with a message when there is
   none. *)
getUserReputation(u) ==
    IF u \in DOMAIN rep
    THEN ReadAnswer("getUserReputation", u, NoQuery, 200, "", {}, rep[u])
    ELSE ReadAnswer("getUserReputation", u, NoQuery, 200,
                    "No reputation score found", {}, NoReputation)

\* A dashboard request of a MUNICIPAL user.
municipalByStaff ==
    \E token \in Staff, endpoint \in Endpoints :
        \E query \in QueriesOf(endpoint) : MunicipalFor(token, endpoint, query)

\* Requests to the role-restricted routes received in one behaviour.
MaxAccess == 3

(* router.use(authenticate) of the recycling routes answering a request
   whose token it does not accept: the request goes no further. *)
Unauthenticated(p, op, auth) ==
    /\ rtx[p].pc = "idle"
    /\ Len(rreqs) < MaxRecycle
    /\ RAnswerAtOnce(RRequest(op, "", 0, "", 0), auth.code, auth.error)
    /\ UNCHANGED <<ledger, dumps, aside>>

\* POST /api/recycling/declare: authenticate, requireRole('CITIZEN'),
\* declareWaste.
declareRoute(p) ==
    /\ Len(rreqs) + Len(mreqs) < MaxAccess
    /\ \E token \in Tokens :
          IF authenticate(token).code # 0
          THEN Unauthenticated(p, "declare", authenticate(token))
          ELSE DeclareFor(p, authenticate(token).user, "PET")

\* POST /api/recycling/pickup/:id: authenticate, requireRole('COLLECTOR'),
\* confirmPickup.
pickupRoute(p) ==
    /\ Len(rreqs) + Len(mreqs) < MaxAccess
    /\ \E token \in Tokens, id \in IdInputs :
          IF authenticate(token).code # 0
          THEN Unauthenticated(p, "pickup", authenticate(token))
          ELSE PickupFor(p, authenticate(token).user, id)

\* POST /api/recycling/validate/:id: authenticate, requireRole('AGENCY'),
\* validateWeight.
validateRoute(p) ==
    /\ Len(rreqs) + Len(mreqs) < MaxAccess
    /\ \E token \in Tokens, id \in IdInputs :
          IF authenticate(token).code # 0
          THEN Unauthenticated(p, "validate", authenticate(token))
          ELSE ValidateFor(p, authenticate(token).user, id, 2)

\* GET /api/municipal/...: a dashboard request of any sender.
municipalRoute ==
    /\ Len(rreqs) + Len(mreqs) < MaxAccess
    /\ \E token \in Tokens, endpoint \in Endpoints :
          MunicipalFor(token, endpoint, NoQuery)

----------------------------------------------------------------------------
(* Number: the IEEE 754 double-precision arithmetic of validateWeight *)

\* A natural number is NLimbs digits in base LimbBase, lowest first; a
\* positive Number is [m, e] with value m * 2^e and 2^52 <= m < 2^53.
LimbBase == 32768

NLimbs == 5

BigOf(n) ==
    <<n % LimbBase, (n \div LimbBase) % LimbBase,
      n \div (LimbBase * LimbBase), 0, 0>>

Two52 == <<0, 0, 0, 128, 0>>

Two53 == <<0, 0, 0, 256, 0>>

RECURSIVE BigScale(_, _, _, _)
BigScale(n, k, i, carry) ==
    IF i > NLimbs THEN <<>>
    ELSE LET v == n[i] * k + carry
         IN  <<v % LimbBase>> \o BigScale(n, k, i + 1, v \div LimbBase)

\* n * k, for k < LimbBase
BigTimes(n, k) == BigScale(n, k, 1, 0)

RECURSIVE BigCarry(_, _, _, _)
BigCarry(n, m, i, carry) ==
    IF i > NLimbs THEN <<>>
    ELSE LET v == n[i] + m[i] + carry
         IN  <<v % LimbBase>> \o BigCarry(n, m, i + 1, v \div LimbBase)

BigPlus(n, m) == BigCarry(n, m, 1, 0)

RECURSIVE BigDivide(_, _, _, _)
BigDivide(n, d, i, rem) ==
    IF i = 0 THEN [q |-> <<>>, r |-> rem]
    ELSE LET v == rem * LimbBase + n[i]
             rest == BigDivide(n, d, i - 1, v % d)
         IN  [q |-> Append(rest.q, v \div d), r |-> rest.r]

\* Quotient and remainder of n by d, for d <= LimbBase
BigOver(n, d) == BigDivide(n, d, NLimbs, 0)

BigLess(n, m) ==
    \E i \in 1..NLimbs :
        n[i] < m[i] /\ \A j \in (i + 1)..NLimbs : n[j] = m[j]

RECURSIVE Pow2(_)
Pow2(s) == IF s = 0 THEN 1 ELSE 2 * Pow2(s - 1)

\* The Number nearest to (N / D) * 2^e, ties to the even significand
\* (the rounding of every Number operation), for N > 0.
RECURSIVE roundToNumber(_, _, _)
roundToNumber(N, D, e) ==
    LET qr == BigOver(N, D)
    IN  IF BigLess(qr.q, Two52) THEN roundToNumber(BigTimes(N, 2), D, e - 1)
        ELSE IF ~BigLess(qr.q, Two53) THEN roundToNumber(N, 2 * D, e + 1)
        ELSE LET up == \/ 2 * qr.r > D
                       \/ 2 * qr.r = D /\ qr.q[1] % 2 = 1
                 m == IF up THEN BigPlus(qr.q, BigOf(1)) ELSE qr.q
             IN  IF m = Two53 THEN [m |-> Two52, e |-> e + 1]
                 ELSE [m |-> m, e |-> e]

\* A JSON number literal with one decimal, tenths / 10, as express.json()
\* parses it.
parseNumber(tenths) == roundToNumber(BigOf(tenths), 10, 0)

\* parseFloat of a string of digits.
parseFloat(n) == roundToNumber(BigOf(n), 1, 0)

\* x * y for a Number y that is a whole number k.
Times(x, k) == roundToNumber(BigTimes(x.m, k), 1, x.e)

\* x / y for a Number y that is a whole number k.
Over(x, k) == roundToNumber(x.m, k, x.e)

\* The significand of x at exponent e <= x.e: x = Lift(x, e) * 2^e.
Lift(x, e) == BigTimes(x.m, Pow2(x.e - e))

\* Lines 177-186 for a confirmedKg Number: the payment split as computed.
paymentSplit(wasteType, confirmedKg) ==
    LET totalValue == Times(confirmedKg, getPricePerKg(wasteType))
    IN  [totalAmount |-> totalValue,
         collectorAmount |-> Over(Times(totalValue, collectorPercentage), 100),
         citizenAmount |-> Over(Times(totalValue, citizenPercentage), 100),
         citylinkAmount |-> Over(Times(totalValue, citylinkPercentage), 100)]

\* confirmedKg literals: 0.1 to MaxTenths / 10 kilograms.
MaxTenths == 200

\* The amounts before they are computed.
NoAmounts ==
    [f \in {"totalAmount", "collectorAmount", "citizenAmount", "citylinkAmount"}
        |-> [m |-> BigOf(0), e |-> 0]]

\* A parsed validateWeight body, for a declaration of the waste type.
SplitInputs ==
    {[fn |-> "split", wasteType |-> w, tenths |-> t, done |-> FALSE,
      out |-> NoAmounts] : w \in WasteTypes, t \in 1..MaxTenths}

\* Lines 177-186 applied to the body.
splitPayment ==
    /\ calc.fn = "split"
    /\ ~calc.done
    /\ calc' = [calc EXCEPT !.done = TRUE,
                            !.out = paymentSplit(calc.wasteType,
                                                 parseNumber(calc.tenths))]
    /\ UNCHANGED <<dumps, recycling, mreqs>>

----------------------------------------------------------------------------
(* geoUtils applied to pairs of points *)

\* Valid coordinates: the points of Locs, and points over the whole range
\* of latitudes and longitudes.
GridPoints ==
    {[lat |-> lat * 10000, lon |-> lon * 10000] :
        lat \in {-90, -46, 0, 34, 90}, lon \in {-180, -72, 0, 58, 180}}

\* radiusMeters
Radii == {0, 100, 5000000}

PointPairs == (Locs \X Locs) \cup (GridPoints \X GridPoints)

NoDistances ==
    [ab |-> 0, ba |-> 0, aa |-> 0,
     withinAb |-> FALSE, withinBa |-> FALSE, withinAa |-> FALSE]

DistanceInputs ==
    {[fn |-> "distance", a |-> pair[1], b |-> pair[2], radiusMeters |-> r,
      done |-> FALSE, out |-> NoDistances] : pair \in PointPairs, r \in Radii}

\* calculateDistance and isWithinRadius applied to a and b, to b and a, and
\* to a and a.
measure ==
    /\ calc.fn = "distance"
    /\ ~calc.done
    /\ LET a == calc.a
           b == calc.b
           r == calc.radiusMeters
       IN  calc' = [calc EXCEPT
               !.done = TRUE,
               !.out = [ab |-> calculateDistance(a.lat, a.lon, b.lat, b.lon),
                        ba |-> calculateDistance(b.lat, b.lon, a.lat, a.lon),
                        aa |-> calculateDistance(a.lat, a.lon, a.lat, a.lon),
                        withinAb |-> isWithinRadius(a.lat, a.lon, b.lat, b.lon, r),
                        withinBa |-> isWithinRadius(b.lat, b.lon, a.lat, a.lon, r),
                        withinAa |-> isWithinRadius(a.lat, a.lon, a.lat, a.lon, r)]]
    /\ UNCHANGED <<dumps, recycling, mreqs>>

----------------------------------------------------------------------------
(* Specifications *)

\* Every user is registered; register creates the user's reputation row
\* with zeros.
InitTables ==
    /\ reports = <<>>
    /\ verifs = <<>>
    /\ photoHashes = <<>>
    /\ rep = [u \in Users |-> [score |-> 0, verifiedReports |-> 0,
                               falseReports |-> 0]]
    /\ awards = EmptyBag
    /\ pc = [p \in Procs |-> "idle"]
    /\ tx = [p \in Procs |-> IdleTx]
    /\ reqs = <<>>
    /\ declarations = <<>>
    /\ collections = <<>>
    /\ confirmations = <<>>
    /\ transactions = <<>>
    /\ wallets = [u \in Users |-> IF Role[u] \in {"CITIZEN", "COLLECTOR"}
                                  THEN 0 ELSE NoWallet]
    /\ rtx = [p \in Procs |-> IdleR]
    /\ rreqs = <<>>
    /\ mreqs = <<>>

Init == InitTables /\ calc = NoCalc

\* Request handlers run concurrently.
Next ==
    \E p \in Procs :
        \/ Submit(p)
        \/ BeginTx(p)
        \/ PhotoConflict(p)
        \/ FindNearby(p)
        \/ SkipVerified(p)
        \/ CreateVerification(p)
        \/ VerifConflict(p)
        \/ UpdateStatus(p)
        \/ Award(p)
        \/ CrossVerify(p)
        \/ CrossVerifyConflict(p)
        \/ Commit(p)
        \/ Respond(p)

Spec == Init /\ [][Next]_vars

\* Requests are handled one at a time: a request is received after the
\* previous one was answered.
SerialNext ==
    \/ Submit(1)
    \/ BeginTx(1)
    \/ FindNearby(1)
    \/ SkipVerified(1)
    \/ CreateVerification(1)
    \/ UpdateStatus(1)
    \/ Award(1)
    \/ CrossVerify(1)
    \/ CrossVerifyConflict(1)
    \/ Commit(1)
    \/ Respond(1)

SpecSerial == Init /\ [][SerialNext]_vars

\* Requests with valid and invalid bodies, handled one at a time.
ValidateNext ==
    \/ SubmitAny(1)
    \/ BeginTx(1)
    \/ FindNearby(1)
    \/ SkipVerified(1)
    \/ CreateVerification(1)
    \/ UpdateStatus(1)
    \/ Award(1)
    \/ CrossVerify(1)
    \/ CrossVerifyConflict(1)
    \/ Commit(1)
    \/ Respond(1)

SpecValidate == Init /\ [][ValidateNext]_vars

\* The recycling requests, handled concurrently.
RecyclingNext ==
    \E p \in Procs :
        \/ declareWaste(p)
        \/ confirmPickup(p)
        \/ pickupTx(p)
        \/ validateWeight(p)
        \/ validateTx(p)

SpecRecycling == Init /\ [][RecyclingNext]_vars

\* The recycling requests, handled one at a time.
RecyclingSerialNext ==
    \/ declareWaste(1)
    \/ confirmPickup(1)
    \/ pickupTx(1)
    \/ validateWeight(1)
    \/ validateTx(1)

SpecRecyclingSerial == Init /\ [][RecyclingSerialNext]_vars

\* Dump reports with new photos at one point, and recycling requests of
\* users with the role their route asks for.
SubmitHere(p) ==
    /\ Len(reqs) < MaxSubmits
    /\ \E u \in Users :
          Receive(p, u, [loc |-> CHOOSE l \in Locs : TRUE, size |-> "MEDIUM",
                         photo |-> [mime |-> "", b64 |-> Cardinality(SeenBodies) + 1]])

declareByCitizen(p) ==
    \E u \in Users : Role[u] = "CITIZEN" /\ DeclareFor(p, u, "PET")

pickupByCollector(p) ==
    \E u \in Users, id \in IdInputs : Role[u] = "COLLECTOR" /\ PickupFor(p, u, id)

validateByAgency(p) ==
    \E u \in Users, id \in IdInputs : Role[u] = "AGENCY" /\ ValidateFor(p, u, id, 2)

\* One dump request handler and one recycling request handler, running at
\* the same time.
ModulesNext ==
    \/ SubmitHere(1)
    \/ BeginTx(1)
    \/ FindNearby(1)
    \/ SkipVerified(1)
    \/ CreateVerification(1)
    \/ UpdateStatus(1)
    \/ Award(1)
    \/ CrossVerify(1)
    \/ CrossVerifyConflict(1)
    \/ Commit(1)
    \/ Respond(1)
    \/ declareByCitizen(1)
    \/ pickupByCollector(1)
    \/ pickupTx(1)
    \/ validateByAgency(1)
    \/ validateTx(1)

SpecModules == Init /\ [][ModulesNext]_vars

\* Dump reports with new photos at the points of ChainLocs, handled one at
\* a time.
SubmitChain(p) ==
    /\ Len(reqs) < MaxChain
    /\ \E u \in Users, l \in ChainLocs :
          Receive(p, u, [loc |-> l, size |-> "MEDIUM",
                         photo |-> [mime |-> "", b64 |-> Cardinality(SeenBodies) + 1]])

ChainNext ==
    \/ SubmitChain(1)
    \/ BeginTx(1)
    \/ FindNearby(1)
    \/ SkipVerified(1)
    \/ CreateVerification(1)
    \/ UpdateStatus(1)
    \/ Award(1)
    \/ CrossVerify(1)
    \/ CrossVerifyConflict(1)
    \/ Commit(1)
    \/ Respond(1)

SpecChain == Init /\ [][ChainNext]_vars

\* Submissions received in one behaviour of the two clusters.
MaxClusters == 4

\* Dump reports with new photos at the points of Locs: all but the last
\* are received while no other request is being handled, the last one at
\* any time.
SubmitCluster(p) ==
    /\ Len(reqs) < MaxClusters
    /\ Len(reqs) < MaxClusters - 1 => \A q \in Procs : pc[q] = "idle"
    /\ \E u \in Users, l \in Locs :
          Receive(p, u, [loc |-> l, size |-> "MEDIUM",
                         photo |-> [mime |-> "", b64 |-> Cardinality(SeenBodies) + 1]])

ClustersNext ==
    \E p \in Procs :
        \/ SubmitCluster(p)
        \/ BeginTx(p)
        \/ FindNearby(p)
        \/ SkipVerified(p)
        \/ CreateVerification(p)
        \/ VerifConflict(p)
        \/ UpdateStatus(p)
        \/ Award(p)
        \/ CrossVerify(p)
        \/ CrossVerifyConflict(p)
        \/ Commit(p)
        \/ Respond(p)

SpecClusters == Init /\ [][ClustersNext]_vars

\* The description of a request body: an optional string (line 14).
Descriptions == {"", "tyres behind the market"}

\* Dump reports with new photos, of every size, with and without a
\* description, handled one at a time.
SubmitSized(p) ==
    /\ Len(reqs) < MaxSubmits
    /\ \E u \in Users, l \in Locs, size \in DumpSizes, d \in Descriptions :
          LET body == [loc |-> l, size |-> size,
                       photo |-> [mime |-> "", b64 |-> Cardinality(SeenBodies) + 1]]
          IN  Receive(p, u, IF d = "" THEN body
                            ELSE body @@ [description |-> d])

SizedNext ==
    \/ SubmitSized(1)
    \/ BeginTx(1)
    \/ FindNearby(1)
    \/ SkipVerified(1)
    \/ CreateVerification(1)
    \/ UpdateStatus(1)
    \/ Award(1)
    \/ CrossVerify(1)
    \/ CrossVerifyConflict(1)
    \/ Commit(1)
    \/ Respond(1)

SpecSized == Init /\ [][SizedNext]_vars

\* The payment split of one validateWeight body.
InitSplit == InitTables /\ calc \in SplitInputs

SplitNext == splitPayment

SpecSplit == InitSplit /\ [][SplitNext]_vars

\* calculateDistance and isWithinRadius on one pair of points.
InitDistance == InitTables /\ calc \in DistanceInputs

DistanceNext == measure

SpecDistance == InitDistance /\ [][DistanceNext]_vars

\* Dump reports at one point, handled one at a time, and the dashboard
\* requests of a MUNICIPAL user.
MunicipalNext ==
    \/ SubmitHere(1)
    \/ BeginTx(1)
    \/ FindNearby(1)
    \/ SkipVerified(1)
    \/ CreateVerification(1)
    \/ UpdateStatus(1)
    \/ Award(1)
    \/ CrossVerify(1)
    \/ CrossVerifyConflict(1)
    \/ Commit(1)
    \/ Respond(1)
    \/ municipalByStaff

SpecMunicipal == Init /\ [][MunicipalNext]_vars

\* Dump reports at one point, handled one at a time, whose photo is a new
\* payload or one sent before, bare or as a data URL of type jpeg or
\* svg+xml.
SubmitPhoto(p) ==
    /\ Len(reqs) < MaxSubmits
    /\ \E u \in Users, mime \in Mimes \cup {BadMime},
          b \in SeenBodies \cup {Cardinality(SeenBodies) + 1} :
          Receive(p, u, [loc |-> CHOOSE l \in Locs : TRUE, size |-> "MEDIUM",
                         photo |-> [mime |-> mime, b64 |-> b]])

PhotosNext ==
    \/ SubmitPhoto(1)
    \/ BeginTx(1)
    \/ FindNearby(1)
    \/ SkipVerified(1)
    \/ CreateVerification(1)
    \/ UpdateStatus(1)
    \/ Award(1)
    \/ CrossVerify(1)
    \/ CrossVerifyConflict(1)
    \/ Commit(1)
    \/ Respond(1)

SpecPhotos == Init /\ [][PhotosNext]_vars

\* The accounts that send read requests: a user with a reputation row and
\* an account without one.
Readers == {"A", "M"}

\* Dump reports handled one at a time, and read requests.
ReadsNext ==
    \/ SubmitHere(1)
    \/ BeginTx(1)
    \/ FindNearby(1)
    \/ SkipVerified(1)
    \/ CreateVerification(1)
    \/ UpdateStatus(1)
    \/ Award(1)
    \/ CrossVerify(1)
    \/ CrossVerifyConflict(1)
    \/ Commit(1)
    \/ Respond(1)
    \/ municipalByStaff
    \/ \E u \in Readers, query \in DumpQueries : getDumps(u, query)
    \/ \E u \in Readers, id \in 1..(Len(reports) + 1) : getDumpById(u, id)
    \/ \E u \in Readers : getUserReputation(u)

SpecReads == Init /\ [][ReadsNext]_vars

\* The role-restricted routes, with requests of every sender, handled one
\* at a time.
AccessNext ==
    \/ declareRoute(1)
    \/ pickupRoute(1)
    \/ pickupTx(1)
    \/ validateRoute(1)
    \/ validateTx(1)
    \/ municipalRoute

SpecAccess == Init /\ [][AccessNext]_vars

----------------------------------------------------------------------------
(* Properties *)

Pair(id, u) == [dumpReportId |-> id, verifierId |-> u]

\* How many times user u was awarded reputation for one of the reports ids.
AwardsFor(u, ids) ==
    SumOver(awards, {a \in DOMAIN awards : a.verifierId = u /\ a.dumpReportId \in ids})

\* Requests j and k were being handled at the same time.
Overlap(j, k) == j # k /\ j \notin reqs[k].prior /\ k \notin reqs[j].prior

\* C1: with submissions handled one at a time, no (report, verifier) pair
\* is awarded reputation more than once.
C1_AwardAtMostOnce ==
    \A a \in DOMAIN awards : awards[a] <= 1

\* A report verified by two later submissions, whose verifiers were awarded.
C1_Witness ==
    \E id \in ReportIds :
        /\ VerificationCount(id) >= 3
        /\ \E a \in DOMAIN awards : a.dumpReportId = id

\* C2: whatever the interleaving of concurrent submissions, no verifier of
\* a report is awarded reputation twice for that report.
C2_NoDoubleAwardConcurrent ==
    \A id \in ReportIds, u \in Users : CopiesIn(Pair(id, u), awards) < 2

\* C3: in every committed state, a VERIFIED report has verification rows of
\* at least two distinct verifiers.
C3_VerifiedHasTwoVerifiers ==
    \A id \in ReportIds :
        reports[id].status = "VERIFIED" => Cardinality(Verifiers(id)) >= 2

\* A VERIFIED report committed by one of two overlapping submissions.
C3_Witness ==
    \E j, k \in 1..Len(reqs) :
        /\ Overlap(j, k)
        /\ reqs[j].code = 201 /\ reqs[k].code = 201
        /\ reports[reqs[k].rid].status = "VERIFIED"

\* C4: with submissions handled one at a time, a report is VERIFIED exactly
\* when it has two or more distinct verifiers.
C4_VerifiedIffTwoVerifiers ==
    \A id \in ReportIds :
        reports[id].status = "VERIFIED" <=> Cardinality(Verifiers(id)) >= 2

\* A report that became VERIFIED beside one that stayed UNVERIFIED.
C4_Witness ==
    \E a, b \in ReportIds :
        /\ reports[a].status = "VERIFIED" /\ Cardinality(Verifiers(a)) = 2
        /\ reports[b].status = "UNVERIFIED"

\* C5: a report that is VERIFIED is still VERIFIED after every step.
C5_VerifiedIsStable ==
    [][\A id \in ReportIds :
          reports[id].status = "VERIFIED"
              => id \in DOMAIN reports' /\ reports'[id].status = "VERIFIED"]_vars

\* A VERIFIED report that a later submission verified again.
C5_Witness ==
    \E id \in ReportIds :
        reports[id].status = "VERIFIED" /\ VerificationCount(id) >= 3

\* The rows a statement of transaction p sees for report id are of distinct users.
DistinctVisible(p, id) ==
    Len(VisibleVerifs(p, id)) =
        Cardinality({r.verifierId : r \in SeqToSet(VisibleVerifs(p, id))})

\* C6: no two verification rows have the same (report, verifier) pair, so
\* the row count reportDump uses equals the number of distinct verifiers.
C6_NoDuplicateVerification ==
    /\ \A j, k \in 1..Len(verifs) : j # k => verifs[j] # verifs[k]
    /\ \A id \in ReportIds : VerificationCount(id) = Cardinality(Verifiers(id))
    /\ \A p \in Procs : \A id \in ReportIds \cup {0} : DistinctVisible(p, id)

\* A report with the reporter's own verification and two others.
C6_Witness ==
    \E id \in ReportIds :
        /\ VerificationCount(id) >= 3
        /\ reports[id].reporterId \in Verifiers(id)

\* Request k was answered after finding two or more nearby reports, all of
\* one author.
SameAuthorCluster(k) ==
    /\ reqs[k].code # 0
    /\ Len(reqs[k].clustered) >= 2
    /\ \A j \in 1..Len(reqs[k].clustered) : reqs[k].clustered[j] = reqs[k].clustered[1]

\* C7: a submission within the radius of two or more reports of one other
\* user V succeeds, and its report has exactly one verification by V.
C7_DuplicatePairSkipped ==
    \A k \in 1..Len(reqs) :
        SameAuthorCluster(k) =>
            /\ reqs[k].code = 201
            /\ Len(SelectSeq(verifs,
                   LAMBDA r : r = Pair(reqs[k].rid, reqs[k].clustered[1]))) = 1

\* Requests k and k+1: a report with no other user's report in the radius,
\* then a report of a different user within its radius, both accepted.
TwoUserScenario(k) ==
    /\ k + 1 <= Len(reqs)
    /\ reqs[k].code = 201 /\ reqs[k + 1].code = 201
    /\ reqs[k].clustered = <<>>
    /\ reqs[k].user # reqs[k + 1].user
    /\ Clustered[reqs[k].loc, reqs[k + 1].loc]

\* How much the score of u grew through awards for the reports ids.
ScoreGain(u, ids) ==
    rep[u].score - REPUTATION_PER_VERIFIED * AwardsFor(u, ReportIds \ ids)

\* The first result is UNVERIFIED with one verification and both reports
\* end VERIFIED.
TwoUserOutcome(k) ==
    /\ ~reqs[k].isVerified /\ reqs[k].verificationCount = 1
    /\ reqs[k + 1].isVerified
    /\ reports[reqs[k].rid].status = "VERIFIED"
    /\ reports[reqs[k + 1].rid].status = "VERIFIED"

Outside(a, b) ==
    (a.lat - b.lat) * (a.lat - b.lat) * 111 * 111
        + (a.lon - b.lon) * (a.lon - b.lon) * 111 * 111 > 1000 * 1000

\* Location l is outside the radius of every report of a user other than u.
OutsideAll(u, l) ==
    \A id \in ReportIds : reports[id].reporterId # u => Outside(l, reports[id].loc)

\* C9: a submission outside the radius of every other user's report adds
\* an UNVERIFIED report with the reporter's verification only, is answered
\* UNVERIFIED with verificationCount 1, and changes no other report,
\* verification row or reputation score.
C9_FarSubmissionFrame ==
    [][\A p \in Procs :
          /\ (pc[p] = "commit" /\ pc'[p] = "fetch"
              /\ OutsideAll(Input(p).user, Input(p).loc))
                => /\ Len(reports') = Len(reports) + 1
                   /\ \A id \in ReportIds : reports'[id] = reports[id]
                   /\ reports'[Len(reports')].status = "UNVERIFIED"
                   /\ verifs' = Append(verifs, Pair(Len(reports'), Input(p).user))
                   /\ rep' = rep
                   /\ awards' = awards
          /\ (pc[p] = "fetch" /\ pc'[p] = "idle"
              /\ OutsideAll(Input(p).user, Input(p).loc))
                => /\ reqs'[tx[p].req].code = 201
                   /\ ~reqs'[tx[p].req].isVerified
                   /\ reqs'[tx[p].req].verificationCount = 1
          /\ (pc[p] # "idle" /\ pc'[p] = "idle"
              /\ OutsideAll(Input(p).user, Input(p).loc))
                => reqs'[tx[p].req].code = 201]_vars

\* A submission far from another user's VERIFIED report was answered.
C9_Witness ==
    \E k \in 1..Len(reqs) : \E id \in ReportIds :
        /\ reqs[k].code = 201 /\ reqs[k].rid > id
        /\ reports[id].reporterId # reqs[k].user
        /\ reports[id].status = "VERIFIED"
        /\ reqs[k].verificationCount = 1
        /\ OutsideAll(reqs[k].user, reqs[k].loc)

\* C10: a submission received after one with the same photo data was
\* accepted is answered 400 'Photo already used', and no row of the photo
\* registry is ever removed or changed.
C10_PhotoBlockedForever ==
    /\ [](\A j, k \in 1..Len(reqs) :
            (reqs[j].code = 201 /\ j \in reqs[k].prior
             /\ reqs[k].photo = reqs[j].photo)
                => reqs[k].code = 400 /\ reqs[k].error = "Photo already used")
    /\ [][/\ Len(photoHashes') >= Len(photoHashes)
          /\ \A n \in 1..Len(photoHashes) : photoHashes'[n] = photoHashes[n]]_vars

\* An accepted photo was sent again by another user, after a submission in
\* between, and rejected.
C10_Witness ==
    \E j, k \in 1..Len(reqs) :
        /\ k > j + 1
        /\ reqs[j].code = 201 /\ j \in reqs[k].prior
        /\ reqs[k].photo = reqs[j].photo /\ reqs[k].user # reqs[j].user
        /\ reqs[j + 1].code = 201
        /\ reqs[k].code = 400


\* Requests j and k carried the same image bytes, with or without a data-URL
\* prefix.
SameBytes(j, k) == reqs[j].photo.b64 = reqs[k].photo.b64

\* Request k has a committed report.
Created(k) ==
    reqs[k].rid # 0 \/ \E p \in Procs : pc[p] = "fetch" /\ tx[p].req = k

\* Request k is answered in this step.
AnsweredNow(k) ==
    /\ k \in 1..Len(reqs')
    /\ reqs'[k].code # 0
    /\ (k > Len(reqs) \/ reqs[k].code = 0)

\* C11: a submission rejected because its photo is already registered never
\* has a report or a transaction of its own, and the step that rejects it
\* leaves every table and every reputation award as it was.
C11_DuplicateChangesNothing ==
    /\ [](\A j, k \in 1..Len(reqs) :
            (reqs[j].code = 201 /\ j \in reqs[k].prior /\ SameBytes(j, k))
                => /\ ~Created(k)
                   /\ \A p \in Procs : tx[p].req # k)
    /\ [][\A k \in 1..Len(reqs') :
            (AnsweredNow(k) /\ reqs'[k].error = "Photo already used")
                => /\ store' = store
                   /\ awards' = awards
                   /\ pc' = pc /\ tx' = tx]_vars

\* A photo was rejected as already used while another submission's
\* transaction was open.
C11_Witness ==
    \E k \in 1..Len(reqs) :
        /\ reqs[k].error = "Photo already used"
        /\ reports # <<>>
        /\ \E p \in Procs : pc[p] \in {"verify", "update", "award", "cross"}

\* C12: of two submissions with the same photo that run at the same time at
\* most one creates a report; no two reports have the same photo hash and
\* no hash has two rows in the registry.
C12_OnePhotoOneReport ==
    /\ \A a, b \in ReportIds :
           a # b => reports[a].photoHash # reports[b].photoHash
    /\ \A a, b \in 1..Len(photoHashes) :
           a # b => photoHashes[a].hash # photoHashes[b].hash
    /\ \A j, k \in 1..Len(reqs) :
           (Overlap(j, k) /\ SameBytes(j, k)) => ~(Created(j) /\ Created(k))

\* Two submissions with the same photo both passed the lookup; one was
\* accepted and the other failed.
C12_Witness ==
    \E j, k \in 1..Len(reqs) :
        /\ Overlap(j, k) /\ SameBytes(j, k)
        /\ reqs[j].code = 201 /\ reqs[k].code = 500

\* C13: of two submissions with the same photo that run at the same time,
\* the one that creates no report is answered 'Photo already used'.
C13_LoserGetsDuplicateError ==
    \A j, k \in 1..Len(reqs) :
        (Overlap(j, k) /\ SameBytes(j, k) /\ reqs[j].code = 201 /\ reqs[k].code # 0)
            => reqs[k].code = 400 /\ reqs[k].error = "Photo already used"

\* Every verification row belongs to a committed report.
VerifsOfReports == \A n \in 1..Len(verifs) : verifs[n].dumpReportId \in ReportIds

\* C14: a submission that fails after its transaction began leaves nothing
\* behind: the tables change only when a transaction commits, the step that
\* answers 500 changes no table, and the committed tables hold exactly one
\* report and one photo hash per committed submission, verification rows of
\* committed reports only, and scores that equal the committed awards.
C14_AllOrNothing ==
    /\ [](/\ Len(photoHashes) = Len(reports)
          /\ Len(reports) = Cardinality({k \in 1..Len(reqs) : Created(k)})
          /\ \A k \in 1..Len(reqs) : reqs[k].code = 500 => ~Created(k)
          /\ VerifsOfReports
          /\ \A u \in Users :
                /\ rep[u].score = REPUTATION_PER_VERIFIED * AwardsFor(u, ReportIds)
                /\ rep[u].verifiedReports = AwardsFor(u, ReportIds))
    /\ [][\A p \in Procs :
            (pc[p] # "idle" /\ pc'[p] = "idle" /\ reqs'[tx[p].req].code = 500)
                => store' = store /\ awards' = awards]_vars
    /\ [][store' # store => \E p \in Procs : pc[p] = "commit" /\ pc'[p] = "fetch"]_vars

\* A submission failed after its transaction had verified two nearby
\* reports, marked them VERIFIED and awarded their verifiers; the reports are
\* still UNVERIFIED and no score has changed.
C14_Witness ==
    \E k \in 1..Len(reqs) :
        /\ reqs[k].code = 500
        /\ SameAuthorCluster(k)
        /\ Len(reports) = 2
        /\ \A id \in ReportIds :
              reports[id].status = "UNVERIFIED" /\ VerificationCount(id) = 1
        /\ \A u \in Users : rep[u].score = 0

\* C15: two submissions of different users within the radius of each other
\* that run at the same time and both commit leave both reports VERIFIED,
\* each user a verifier of the other's report.
C15_ConcurrentMutual ==
    \A j, k \in 1..Len(reqs) :
        (/\ Overlap(j, k)
         /\ reqs[j].code = 201 /\ reqs[k].code = 201
         /\ reqs[j].user # reqs[k].user
         /\ Clustered[reqs[j].loc, reqs[k].loc])
            => /\ reports[reqs[j].rid].status = "VERIFIED"
               /\ reports[reqs[k].rid].status = "VERIFIED"
               /\ reqs[j].user \in Verifiers(reqs[k].rid)
               /\ reqs[k].user \in Verifiers(reqs[j].rid)

\* C17: every VERIFIED report has a verifier other than its reporter, and a
\* submission with no other user's report within 100 m of it is accepted
\* with an UNVERIFIED report of verification count 1 that stays so (or is
\* refused for its photo).
C17_VerifiedNeedsOtherUser ==
    /\ \A id \in ReportIds :
           reports[id].status = "VERIFIED"
               => \E u \in Verifiers(id) : u # reports[id].reporterId
    /\ \A k \in 1..Len(reqs) :
           (reqs[k].code # 0 /\ OutsideAll(reqs[k].user, reqs[k].loc))
               => \/ /\ reqs[k].code = 201
                     /\ ~reqs[k].isVerified /\ reqs[k].verificationCount = 1
                     /\ reports[reqs[k].rid].status = "UNVERIFIED"
                     /\ Verifiers(reqs[k].rid) = {reqs[k].user}
                     /\ VerificationCount(reqs[k].rid) = 1
                  \/ reqs[k].code = 400 /\ reqs[k].error = "Photo already used"
                  \/ /\ reqs[k].code = 500
                     /\ \E j \in 1..Len(reqs) : Overlap(j, k) /\ SameBytes(j, k)

\* One user has three reports at one point, all accepted and all UNVERIFIED
\* with one verification.
C17_Witness ==
    /\ Len(reports) = 3
    /\ \A k \in 1..Len(reqs) : reqs[k].code = 201
    /\ \A a, b \in ReportIds :
          /\ reports[a].reporterId = reports[b].reporterId
          /\ reports[a].loc = reports[b].loc
    /\ \A a \in ReportIds :
          reports[a].status = "UNVERIFIED" /\ VerificationCount(a) = 1

\* C18: a submission whose insert of a verification for a nearby report
\* collides with a concurrent submission's is not answered with a failure.
C18_ConflictNotSurfaced ==
    [][\A p \in Procs :
          (pc[p] = "verify" /\ pc'[p] = "idle") => reqs'[tx[p].req].code # 500]_vars


\* The body of request k fails reportDumpSchema's rules: a latitude outside
\* [-90, 90], a longitude outside [-180, 180], an unknown size or a payload
\* of fewer than 100 characters.
SchemaInvalid(k) ==
    \/ reqs[k].loc.lat < -900000 \/ reqs[k].loc.lat > 900000
    \/ reqs[k].loc.lon < -1800000 \/ reqs[k].loc.lon > 1800000
    \/ reqs[k].size \notin {"SMALL", "MEDIUM", "LARGE"}
    \/ PayloadLength(reqs[k].photo) < 100

\* The body of request k is invalid: it fails the schema's rules or its
\* photo is not the base64 text of an image.
Malformed(k) == SchemaInvalid(k) \/ reqs[k].photo.b64 = GarbageBody

ValidationErrors == {"Validation failed", "Invalid photo format"}

\* Request k is answered 400 with a validation error and never has a
\* transaction or a report.
Rejected(k) ==
    /\ reqs[k].code = 400
    /\ reqs[k].error \in ValidationErrors
    /\ ~Created(k)
    /\ \A p \in Procs : tx[p].req # k

\* The step that answers a request with a validation error changes nothing
\* else.
RejectionFrame ==
    [][\A k \in 1..Len(reqs') :
          (AnsweredNow(k) /\ reqs'[k].error \in ValidationErrors)
              => /\ store' = store
                 /\ awards' = awards
                 /\ pc' = pc /\ tx' = tx]_vars

\* C16: a submission whose latitude, longitude or size is out of range, or
\* whose photo is too short or not a valid image encoding, is rejected
\* before any mutation, and the rejection leaves the store as it was.
C16_InvalidRejected ==
    /\ [](\A k \in 1..Len(reqs) : Malformed(k) => Rejected(k))
    /\ RejectionFrame



\* A step of the dump reporting module's handler, and one of the recycling
\* module's.
DumpStep == <<pc, tx, reqs>>' # <<pc, tx, reqs>>

RecyclingStep == <<rtx, rreqs>>' # <<rtx, rreqs>>

\* C19: a step of reportDump changes no declaration, collection,
\* confirmation, recycling transaction or wallet; a step of declareWaste,
\* confirmPickup or validateWeight changes no report, verification, photo
\* hash or reputation score; and those tables change in no other step.
C19_ModulesSeparate ==
    [][/\ DumpStep => ledger' = ledger
       /\ RecyclingStep => store' = store /\ awards' = awards
       /\ ledger' # ledger => RecyclingStep
       /\ store' # store => DumpStep]_vars

\* A report was verified with reputation awarded and a declaration was
\* completed with wallets credited, and each user's score is what the dump
\* module awarded.
C19_Witness ==
    /\ \E id \in ReportIds : reports[id].status = "VERIFIED"
    /\ \E id \in 1..Len(declarations) : declarations[id].status = "COMPLETED"
    /\ \E u \in Users : rep[u].score > 0
    /\ \E u \in Users : wallets[u] > 0
    /\ \A u \in Users : rep[u].score = REPUTATION_PER_VERIFIED * AwardsFor(u, ReportIds)

\* Recycling request k is answered in this step.
RAnsweredNow(k) ==
    /\ k \in 1..Len(rreqs')
    /\ rreqs'[k].code # 0
    /\ (k > Len(rreqs) \/ rreqs[k].code = 0)

\* The status that follows s.
NextStatus(s) == IF s = "PENDING" THEN "PICKED_UP" ELSE "COMPLETED"

\* Declaration id moves from status from to status to in this step.
Moves(id, from, to) ==
    /\ id \in 1..Len(declarations)
    /\ declarations[id].status = from
    /\ declarations'[id].status = to

\* Recycling request k, of a user with the role the route asks for and for
\* a known declaration, is answered in this step.
AnsweredFor(k, op, role) ==
    /\ RAnsweredNow(k)
    /\ rreqs'[k].op = op
    /\ Role[rreqs'[k].user] = role
    /\ rreqs'[k].id \in 1..Len(declarations)

\* C20: with requests handled one at a time, a declaration is created
\* PENDING and its status only moves PENDING -> PICKED_UP -> COMPLETED;
\* confirmPickup succeeds only on a PENDING declaration and validateWeight
\* only on a PICKED_UP one that has a collection, and both answer 'Invalid
\* status' otherwise; wallets change only in a step that moves a declaration
\* to COMPLETED; a request refused for its status or for an unknown
\* declaration changes nothing.
C20_StatusMovesForward ==
    [][/\ Len(declarations') >= Len(declarations)
       /\ \A id \in 1..Len(declarations) :
             \/ declarations'[id] = declarations[id]
             \/ /\ declarations[id].status # "COMPLETED"
                /\ declarations'[id] =
                      [declarations[id] EXCEPT !.status = NextStatus(@)]
       /\ \A id \in (Len(declarations) + 1)..Len(declarations') :
             declarations'[id].status = "PENDING"
       /\ \A k \in 1..Len(rreqs') :
             (RAnsweredNow(k) /\ rreqs'[k].code = 200 /\ rreqs'[k].op = "pickup")
                 => /\ Moves(rreqs'[k].id, "PENDING", "PICKED_UP")
                    /\ wallets' = wallets
       /\ \A k \in 1..Len(rreqs') :
             (RAnsweredNow(k) /\ rreqs'[k].code = 200 /\ rreqs'[k].op = "validate")
                 => /\ Moves(rreqs'[k].id, "PICKED_UP", "COMPLETED")
                    /\ CollectionExists(rreqs'[k].id)
       /\ \A k \in 1..Len(rreqs') :
             (AnsweredFor(k, "pickup", "COLLECTOR")
              /\ declarations[rreqs'[k].id].status # "PENDING")
                 => rreqs'[k].code = 400 /\ rreqs'[k].error = "Invalid status"
       /\ \A k \in 1..Len(rreqs') :
             (AnsweredFor(k, "validate", "AGENCY") /\ rreqs'[k].kg > 0
              /\ declarations[rreqs'[k].id].status # "PICKED_UP")
                 => rreqs'[k].code = 400 /\ rreqs'[k].error = "Invalid status"
       /\ wallets' # wallets
             => \E id \in 1..Len(declarations) : Moves(id, "PICKED_UP", "COMPLETED")
       /\ \A k \in 1..Len(rreqs') :
             (RAnsweredNow(k) /\ rreqs'[k].error \in
                  {"Invalid status", "Declaration not found",
                   "No collection record found"})
                 => ledger' = ledger /\ rtx' = rtx]_vars

\* A declaration went through the three statuses, the wallets were
\* credited, and a later pickup of it was refused for its status.
C20_Witness ==
    \E id \in 1..Len(declarations) :
        /\ declarations[id].status = "COMPLETED"
        /\ wallets["A"] > 0 /\ wallets["B"] > 0
        /\ \E k \in 1..Len(rreqs) :
              /\ rreqs[k].id = id /\ rreqs[k].op = "pickup"
              /\ rreqs[k].error = "Invalid status"

\* The lowest exponent of the four amounts of a split.
SplitExponent(s) ==
    CHOOSE e \in {s.totalAmount.e, s.collectorAmount.e, s.citizenAmount.e,
                  s.citylinkAmount.e} :
        /\ e <= s.totalAmount.e /\ e <= s.collectorAmount.e
        /\ e <= s.citizenAmount.e /\ e <= s.citylinkAmount.e

\* amount = total * percentage / 100, as real numbers.
ExactShare(s, amount, percentage) ==
    BigTimes(Lift(amount, SplitExponent(s)), 100)
        = BigTimes(Lift(s.totalAmount, SplitExponent(s)), percentage)

\* collectorAmount + citizenAmount + citylinkAmount = totalAmount, as real
\* numbers.
SumsToTotal(s) ==
    BigPlus(BigPlus(Lift(s.collectorAmount, SplitExponent(s)),
                    Lift(s.citizenAmount, SplitExponent(s))),
            Lift(s.citylinkAmount, SplitExponent(s)))
        = Lift(s.totalAmount, SplitExponent(s))

\* C21: the amounts validateWeight computes for a confirmed weight are 50%,
\* 20% and 30% of confirmedKg * pricePerKg, and the three amounts sum
\* exactly to totalAmount.
C21_SplitSumsExactly ==
    (calc.fn = "split" /\ calc.done) =>
        /\ calc.out.totalAmount
              = Times(parseNumber(calc.tenths), getPricePerKg(calc.wasteType))
        /\ ExactShare(calc.out, calc.out.collectorAmount, 50)
        /\ ExactShare(calc.out, calc.out.citizenAmount, 20)
        /\ ExactShare(calc.out, calc.out.citylinkAmount, 30)
        /\ SumsToTotal(calc.out)

\* C22: every dump a municipal dashboard endpoint returns has status
\* VERIFIED, whatever the query parameters.
C22_OnlyVerifiedReturned ==
    \A k \in 1..Len(mreqs) :
        \A d \in mreqs[k].dumps : d.status = "VERIFIED"

\* The roles a route lets through.
AllowedRoles(op) ==
    IF op = "declare" THEN {"CITIZEN"}
    ELSE IF op = "pickup" THEN {"COLLECTOR"}
    ELSE IF op = "validate" THEN {"AGENCY"}
    ELSE {"MUNICIPAL"}

AuthErrors == {"No token provided", "Invalid token", "User not found"}

\* Recycling request k got past authenticate and requireRole.
ReachedHandler(k) == rreqs[k].code \notin {401, 403}

\* A step that receives a request and answers it 401 or 403.
TurnedAway ==
    \/ /\ Len(rreqs') = Len(rreqs) + 1
       /\ rreqs'[Len(rreqs')].code \in {401, 403}
    \/ /\ Len(mreqs') = Len(mreqs) + 1
       /\ mreqs'[Len(mreqs')].code \in {401, 403}

\* C23: a request reaches the handler of a role-restricted route only with
\* a valid token of a registered user whose role the route allows; without
\* an authenticated user it is answered 401, with another role 403, and in
\* both cases no handler runs and no table changes.
C23_RoleBasedAccess ==
    /\ [](\A k \in 1..Len(rreqs) :
            /\ rreqs[k].user = "" =>
                   rreqs[k].code = 401 /\ rreqs[k].error \in AuthErrors
            /\ (rreqs[k].user # ""
                   /\ Role[rreqs[k].user] \notin AllowedRoles(rreqs[k].op)) =>
                   rreqs[k].code = 403
            /\ ReachedHandler(k) =>
                   /\ rreqs[k].user \in Accounts
                   /\ Role[rreqs[k].user] \in AllowedRoles(rreqs[k].op))
    /\ [](\A k \in 1..Len(mreqs) :
            /\ mreqs[k].token \notin Accounts =>
                   mreqs[k].code = 401 /\ mreqs[k].error \in AuthErrors
            /\ (mreqs[k].token \in Accounts
                   /\ Role[mreqs[k].token] \notin AllowedRoles("municipal")) =>
                   mreqs[k].code = 403
            /\ mreqs[k].code \notin {401, 403} =>
                   /\ mreqs[k].token \in Accounts
                   /\ Role[mreqs[k].token] \in AllowedRoles("municipal")
            /\ mreqs[k].code \in {401, 403} => mreqs[k].dumps = {})
    /\ [][TurnedAway => UNCHANGED <<ledger, store, rtx>>]_vars

\* A request without a token was answered 401, a collector's declare 403,
\* and a MUNICIPAL user's dashboard request was served.
C23_Witness ==
    /\ \E k \in 1..Len(rreqs) : rreqs[k].user = "" /\ rreqs[k].code = 401
    /\ \E k \in 1..Len(rreqs) :
           /\ rreqs[k].op = "declare" /\ rreqs[k].user = "B"
           /\ rreqs[k].code = 403
    /\ \E k \in 1..Len(mreqs) : mreqs[k].token = "M" /\ mreqs[k].code = 200

\* C24: calculateDistance gives the same distance with its two points
\* swapped and 0 for identical points; isWithinRadius gives the same answer
\* with the points swapped and is true for identical points with any
\* radius >= 0.
C24_DistanceSymmetric ==
    (calc.fn = "distance" /\ calc.done) =>
        /\ calc.out.ab = calc.out.ba
        /\ calc.out.aa = 0
        /\ calc.out.withinAb = calc.out.withinBa
        /\ calc.out.withinAa

\* Two points of different latitudes and longitudes, more than 5000 km
\* apart, were measured both ways with radius 0, and the first against
\* itself.
C24_Witness ==
    /\ calc.fn = "distance" /\ calc.done
    /\ calc.a.lat = 340000 /\ calc.b.lat = -460000
    /\ calc.a.lon # calc.b.lon
    /\ calc.radiusMeters = 0
    /\ calc.out.ab > 50000000
    /\ ~calc.out.withinAb
    /\ calc.out.withinAa

\* Handler p's transaction commits in this step.
Commits(p) == pc[p] = "commit" /\ pc'[p] = "fetch"

\* Report N, of another user, is VERIFIED and within the radius of the
\* report handler p is about to commit, whose author is not yet one of N's
\* verifiers.
VerifiedNearby(p, N) ==
    /\ reports[N].status = "VERIFIED"
    /\ reports[N].reporterId # Input(p).user
    /\ Clustered[Input(p).loc, reports[N].loc]
    /\ Input(p).user \notin Verifiers(N)

\* The reputation user v was awarded for the reports ids, in points.
PointsFor(v, ids) == REPUTATION_PER_VERIFIED * AwardsFor(v, ids)

\* The submitter becomes a verifier of N, which stays VERIFIED, and no
\* award for N is added.
JoinsWithoutAward(p, N) ==
    /\ Input(p).user \in Verifiers(N)'
    /\ VerificationCount(N)' = VerificationCount(N) + 1
    /\ reports'[N].status = "VERIFIED"
    /\ \A v \in Users : AwardsFor(v, {N})' = AwardsFor(v, {N})

NearbyOf(p) == ClusteredIds(Input(p).user, Input(p).loc)

\* C26: when a submission of report R by user U commits (submissions one at
\* a time), U is a verifier of every report N of another user within the
\* radius and N's reporter is a verifier of R; the verifiers of R are U and
\* those reporters, each recorded once; the reports within the radius gain
\* only U, and the rows of every other report (outside the radius, or of U)
\* are unchanged.
C26_SymmetricCrossVerification ==
    [][\A p \in Procs : Commits(p) =>
          \A U \in {Input(p).user}, R \in {Len(reports) + 1}, near \in {NearbyOf(p)} :
              /\ \A N \in near :
                    /\ U \in Verifiers(N)'
                    /\ reports[N].reporterId \in Verifiers(R)'
                    /\ Verifiers(N)' = Verifiers(N) \cup {U}
              /\ Verifiers(R)' = {U} \cup {reports[N].reporterId : N \in near}
              /\ VerificationCount(R)' = Cardinality(Verifiers(R)')
              /\ \A M \in ReportIds \ near :
                    SelectSeqBy(verifs', M) = SelectSeqBy(verifs, M)]_vars

\* User U's report R was committed within the radius of report N of
\* another user, of U's own earlier report and out of the radius of a
\* third user's report: U and N's reporter verify each other's reports, and
\* the other two reports gained no row.
C26_Witness ==
    \E k \in 1..Len(reqs) :
        /\ reqs[k].code = 201
        /\ LET U == reqs[k].user
               R == reqs[k].rid
           IN  \E N, M, Own \in 1..(R - 1) :
                  /\ reports[N].reporterId # U
                  /\ Clustered[reports[R].loc, reports[N].loc]
                  /\ U \in Verifiers(N)
                  /\ Verifiers(R) = {U, reports[N].reporterId}
                  /\ reports[M].reporterId \notin {U, reports[N].reporterId}
                  /\ ~Clustered[reports[R].loc, reports[M].loc]
                  /\ U \notin Verifiers(M)
                  /\ reports[Own].reporterId = U
                  /\ Clustered[reports[R].loc, reports[Own].loc]
                  /\ Verifiers(Own) = {U}

\* The handlers between the creation of their report and the commit.
InTransaction == {p \in Procs : pc[p] \notin {"idle", "begin", "fetch"}}

\* C27: the reporter of every committed report is one of its verifiers, so
\* its verification count is at least 1; a report created in an open
\* transaction has the reporter's row from its creation on; and the
\* reporter counts toward the threshold: a report with two verification
\* rows, one of them the reporter's, is VERIFIED.
C27_SelfVerification ==
    /\ \A id \in ReportIds :
          /\ reports[id].reporterId \in Verifiers(id)
          /\ VerificationCount(id) >= 1
          /\ VerificationCount(id) = 2 => reports[id].status = "VERIFIED"
    /\ \A p \in InTransaction :
          /\ Len(tx[p].rows) >= 1
          /\ tx[p].rows[1] = [dumpReportId |-> 0, verifierId |-> Input(p).user]
          /\ Len(SelectSeqBy(tx[p].rows, 0)) = 2 /\ pc[p] \in {"award", "commit"}
                => tx[p].ownStatus = "VERIFIED"

\* One committed report has its reporter as its only verifier and is
\* UNVERIFIED, another is VERIFIED with two rows, the reporter's and one
\* other user's.
C27_Witness ==
    /\ \E id \in ReportIds :
          /\ Verifiers(id) = {reports[id].reporterId}
          /\ VerificationCount(id) = 1
          /\ reports[id].status = "UNVERIFIED"
    /\ \E id \in ReportIds :
          /\ VerificationCount(id) = 2
          /\ Cardinality(Verifiers(id)) = 2
          /\ reports[id].reporterId \in Verifiers(id)
          /\ reports[id].status = "VERIFIED"

\* Handler p is at the iteration of the loop of line 119 for a report its
\* user is already a recorded verifier of, and takes a step.
AtVerifiedByUser(p) ==
    /\ pc[p] = "verify"
    /\ Input(p).user \in Verifiers(Cur(p).id)
    /\ <<pc[p], tx[p]>>' # <<pc[p], tx[p]>>

\* C28: when user U, already a recorded verifier of another user's report
\* N, submits a report within the radius of N (submissions one at a time),
\* the test of line 125 finds U among N's verifiers and the iteration for
\* N writes nothing and answers nothing: the loop moves on; and at the
\* commit of the submission N has the same rows, the same
\* status and the same awards as before.
C28_AlreadyVerifierSkipped ==
    /\ [](\A p \in Procs :
            pc[p] = "verify" /\ Input(p).user \in Verifiers(Cur(p).id)
                => alreadyVerified(Cur(p), Input(p).user))
    /\ [][\A p \in Procs :
          /\ AtVerifiedByUser(p) =>
                /\ pc'[p] \in {"verify", "cross"}
                /\ tx'[p].rows = tx[p].rows
                /\ tx'[p].statusUpd = tx[p].statusUpd
                /\ tx'[p].awardsBuf = tx[p].awardsBuf
                /\ reqs' = reqs
          /\ Commits(p) =>
                \A U \in {Input(p).user}, N \in NearbyOf(p) :
                    U \in Verifiers(N) =>
                        /\ SelectSeqBy(verifs', N) = SelectSeqBy(verifs, N)
                        /\ Cardinality({k \in 1..Len(verifs') :
                               verifs'[k] = [dumpReportId |-> N,
                                             verifierId |-> U]}) = 1
                        /\ reports'[N].status = reports[N].status
                        /\ \A v \in Users :
                               AwardsFor(v, {N})' = AwardsFor(v, {N})]_vars

\* User U has two committed reports within the radius of report N of
\* another user: N has two verification rows, one of them U's, U and N's
\* reporter were awarded once for N, and N's reporter is a verifier of both
\* reports of U.
C28_Witness ==
    \E N, R1, R2 \in ReportIds :
        /\ R1 < R2
        /\ reports[R1].reporterId = reports[R2].reporterId
        /\ reports[N].reporterId # reports[R2].reporterId
        /\ Clustered[reports[R1].loc, reports[N].loc]
        /\ Clustered[reports[R2].loc, reports[N].loc]
        /\ VerificationCount(N) = 2
        /\ Verifiers(N) = {reports[N].reporterId, reports[R2].reporterId}
        /\ reports[N].status = "VERIFIED"
        /\ \A v \in Verifiers(N) : AwardsFor(v, {N}) = 1
        /\ reports[N].reporterId \in Verifiers(R1) \cap Verifiers(R2)
        /\ \E k \in 1..Len(reqs) : reqs[k].code = 201 /\ reqs[k].rid = R2

\* The nearby reports the submission of handler p moves to VERIFIED: those
\* that are UNVERIFIED and that its user has not verified yet.
Crossing(p) ==
    {N \in NearbyOf(p) : /\ Input(p).user \notin Verifiers(N)
                         /\ reports[N].status = "UNVERIFIED"}

\* The verification rows the submission of handler p adds, R being the new
\* report.
RowsAdded(p, R) ==
    {[dumpReportId |-> R, verifierId |-> Input(p).user]}
        \cup {[dumpReportId |-> N, verifierId |-> Input(p).user] :
                 N \in {M \in NearbyOf(p) : Input(p).user \notin Verifiers(M)}}
        \cup {[dumpReportId |-> R, verifierId |-> reports[N].reporterId] :
                 N \in NearbyOf(p)}

\* The number of awards the submission of handler p gives user v: one for
\* each report it moves to VERIFIED that v is a verifier of.
AwardsGiven(p, v) ==
    Cardinality({N \in Crossing(p) : v \in Verifiers(N) \cup {Input(p).user}})
        + (IF NearbyOf(p) # {}
              /\ v \in {Input(p).user}
                        \cup {reports[N].reporterId : N \in NearbyOf(p)}
           THEN 1 ELSE 0)

\* C29: the outcome of a submission does not depend on the order in which
\* the nearby reports are processed: whatever the order findMany returned
\* them in, the commit adds the same set of verification rows, gives every
\* report the same status and every user the same score, all determined by
\* the tables before the submission.
C29_OrderIndependent ==
    [][\A p \in Procs : Commits(p) =>
          \A R \in {Len(reports) + 1}, near \in {NearbyOf(p)},
             crossing \in {Crossing(p)}, rows \in {RowsAdded(p, Len(reports) + 1)},
             given \in {[v \in Users |-> AwardsGiven(p, v)]} :
              /\ SeqToSet(verifs') = SeqToSet(verifs) \cup rows
              /\ Len(verifs') = Len(verifs) + Cardinality(rows)
              /\ \A N \in ReportIds :
                    reports'[N].status = IF N \in crossing THEN "VERIFIED"
                                         ELSE reports[N].status
              /\ reports'[R].status = IF near = {} THEN "UNVERIFIED"
                                      ELSE "VERIFIED"
              /\ \A v \in Users :
                    /\ rep'[v].score
                         = rep[v].score + REPUTATION_PER_VERIFIED * given[v]
                    /\ rep'[v].verifiedReports
                         = rep[v].verifiedReports + given[v]]_vars

\* A committed submission had two nearby reports, of two users, returned
\* the later report first; the earlier one was VERIFIED before and brought
\* the submitter no award, the later one was moved to VERIFIED.
C29_Witness ==
    \E k \in 1..Len(reqs) :
        /\ reqs[k].code = 201
        /\ Len(reqs[k].clustered) = 2
        /\ \E N1, N2 \in 1..(reqs[k].rid - 1) :
              /\ N1 < N2
              /\ reqs[k].clustered
                   = <<reports[N2].reporterId, reports[N1].reporterId>>
              /\ reports[N1].reporterId # reports[N2].reporterId
              /\ Clustered[reports[reqs[k].rid].loc, reports[N1].loc]
              /\ Clustered[reports[reqs[k].rid].loc, reports[N2].loc]
              /\ reqs[k].user \in Verifiers(N1) \cap Verifiers(N2)
              /\ AwardsFor(reqs[k].user, {N1}) = 0
              /\ AwardsFor(reqs[k].user, {N2}) = 1
              /\ reports[N1].status = "VERIFIED"
              /\ reports[N2].status = "VERIFIED"
              /\ VerificationCount(reqs[k].rid) = 3

\* Request k is answered 201 in this step.
Succeeds(k) == k \in 1..Len(reqs) /\ reqs[k].code = 0 /\ reqs'[k].code = 201

\* C30: the answer to a successful submission describes the new report as
\* the tables hold it when the answer is sent: verificationCount is the
\* number of its verification rows, isVerified tells whether its status is
\* VERIFIED, and isVerified is true exactly when verificationCount >= 2.
C30_ResultDescribesReport ==
    [][\A k \in 1..Len(reqs) : Succeeds(k) =>
          /\ reqs'[k].rid \in ReportIds
          /\ reports[reqs'[k].rid].reporterId = reqs[k].user
          /\ reports[reqs'[k].rid].photoHash = generatePhotoHash(reqs[k].photo)
          /\ reqs'[k].verificationCount
                = Cardinality({j \in 1..Len(verifs) :
                                  verifs[j].dumpReportId = reqs'[k].rid})
          /\ reqs'[k].isVerified
                = (reports[reqs'[k].rid].status = "VERIFIED")
          /\ reqs'[k].isVerified = (reqs'[k].verificationCount >= 2)
          /\ UNCHANGED <<reports, verifs>>]_vars

\* One submission was answered with one verification and not verified;
\* another, which had found no nearby report, was answered with two
\* verifications and verified, a concurrent submission having verified its
\* report between its commit and its answer.
C30_Witness ==
    /\ \E k \in 1..Len(reqs) :
          /\ reqs[k].code = 201
          /\ reqs[k].verificationCount = 1
          /\ ~reqs[k].isVerified
    /\ \E k \in 1..Len(reqs) :
          /\ reqs[k].code = 201
          /\ reqs[k].clustered = <<>>
          /\ reqs[k].verificationCount = 2
          /\ reqs[k].isVerified

\* C31: every user's reputation row has score = REPUTATION_PER_VERIFIED *
\* verifiedReports, both non-negative; no step lowers a score or
\* verifiedReports, and no step changes falseReports.
C31_ReputationRecord ==
    /\ [](\A u \in Users :
            /\ rep[u].score = REPUTATION_PER_VERIFIED * rep[u].verifiedReports
            /\ rep[u].score >= 0
            /\ rep[u].verifiedReports >= 0)
    /\ [][\A u \in Users :
            /\ rep'[u].score >= rep[u].score
            /\ rep'[u].verifiedReports >= rep[u].verifiedReports
            /\ rep'[u].falseReports = rep[u].falseReports]_vars

\* Three reports are committed; one user was awarded three times and
\* another once; no falseReports counter has moved.
C31_Witness ==
    /\ \E u \in Users : rep[u].score = 30 /\ rep[u].verifiedReports = 3
    /\ \E u \in Users : rep[u].score = 10 /\ rep[u].verifiedReports = 1
    /\ \A u \in Users : rep[u].falseReports = 0
    /\ Len(reports) = 3

\* Sequence s is the beginning of sequence t.
IsPrefix(s, t) == Len(s) <= Len(t) /\ SubSeq(t, 1, Len(s)) = s

\* C32: verification rows and reports are only added: every step keeps the
\* rows of dump_verifications as they are and may append to them, keeps
\* every report with its reporter, location, size and photo hash, and so
\* lowers no report's verification count.
C32_AppendOnly ==
    [][/\ IsPrefix(verifs, verifs')
       /\ Len(reports') >= Len(reports)
       /\ \A id \in ReportIds :
             /\ [reports'[id] EXCEPT !.status = reports[id].status] = reports[id]
             /\ Cardinality({j \in 1..Len(verifs') : verifs'[j].dumpReportId = id})
                  >= Cardinality({j \in 1..Len(verifs) : verifs[j].dumpReportId = id})]_vars

\* Two reports are committed, the first with two verification rows, the
\* table's first row being its reporter's, and a submission was rolled back.
C32_Witness ==
    /\ Len(reports) = 2
    /\ VerificationCount(1) = 2
    /\ verifs[1] = [dumpReportId |-> 1, verifierId |-> reports[1].reporterId]
    /\ \E k \in 1..Len(reqs) : reqs[k].code = 500

\* The reports of other users within the radius of the report of handler
\* p, found from reporters and locations alone.
BlindNearby(p) ==
    {N \in ReportIds : /\ reports[N].reporterId # Input(p).user
                       /\ Clustered[Input(p).loc, reports[N].loc]}

\* Those of them that are UNVERIFIED and not yet verified by the submitter.
BlindCrossing(p) ==
    {N \in BlindNearby(p) : /\ Input(p).user \notin Verifiers(N)
                            /\ reports[N].status = "UNVERIFIED"}

\* C33: the verification outcome of a submission does not depend on sizes
\* or descriptions: with reports and submissions of every size, with and
\* without a description, the rows added, the statuses after the commit and
\* the reputation changes are determined by the reporters, locations,
\* statuses and verification rows before the submission and by the
\* submitter and location of the new report; size and description are only
\* stored.
C33_SizeBlindOutcome ==
    [][\A p \in Procs : Commits(p) =>
          \A U \in {Input(p).user}, R \in {Len(reports) + 1},
             near \in {BlindNearby(p)}, crossing \in {BlindCrossing(p)} :
              /\ SeqToSet(verifs')
                   = SeqToSet(verifs)
                       \cup {[dumpReportId |-> R, verifierId |-> U]}
                       \cup {[dumpReportId |-> N, verifierId |-> U] : N \in near}
                       \cup {[dumpReportId |-> R,
                              verifierId |-> reports[N].reporterId] : N \in near}
              /\ \A N \in ReportIds :
                    reports'[N].status = IF N \in crossing THEN "VERIFIED"
                                         ELSE reports[N].status
              /\ reports'[R].status = IF near = {} THEN "UNVERIFIED"
                                      ELSE "VERIFIED"
              /\ \A v \in Users :
                    rep'[v].score - rep[v].score
                      = REPUTATION_PER_VERIFIED
                          * (Cardinality({N \in crossing :
                                            v \in Verifiers(N) \cup {U}})
                             + (IF near # {}
                                   /\ v \in {U} \cup {reports[N].reporterId :
                                                        N \in near}
                                THEN 1 ELSE 0))
              /\ reports'[R].size = Input(p).size
              /\ reports'[R].description = Input(p).description]_vars

\* A SMALL report without description and a LARGE report with one, of two
\* users at the same point, are both VERIFIED, each user a verifier of both
\* and awarded twice.
C33_Witness ==
    \E N1, N2 \in ReportIds :
        /\ reports[N1].size = "SMALL" /\ reports[N1].description = ""
        /\ reports[N2].size = "LARGE" /\ reports[N2].description # ""
        /\ reports[N1].loc = reports[N2].loc
        /\ reports[N1].reporterId # reports[N2].reporterId
        /\ Verifiers(N1) = {reports[N1].reporterId, reports[N2].reporterId}
        /\ Verifiers(N2) = Verifiers(N1)
        /\ reports[N1].status = "VERIFIED" /\ reports[N2].status = "VERIFIED"
        /\ \A v \in Verifiers(N1) : rep[v].score = 2 * REPUTATION_PER_VERIFIED

\* The reports of other users within the radius of request k.
NearOf(k) == ClusteredIds(reqs[k].user, reqs[k].loc)

\* Requests j and k are of different users, with different photos, outside
\* the radius of each other and have no nearby report in common.
Unrelated(j, k) ==
    /\ reqs[j].user # reqs[k].user
    /\ generatePhotoHash(reqs[j].photo) # generatePhotoHash(reqs[k].photo)
    /\ ~Clustered[reqs[j].loc, reqs[k].loc]
    /\ NearOf(j) \cap NearOf(k) = {}

\* Handler p has an open transaction.
OpenTx(p) == pc[p] \in {"find", "verify", "update", "award", "cross", "commit"}

\* Handler p waits for a lock another open transaction holds.
Blocked(p) ==
    \/ pc[p] = "begin" /\ PhotoKeyHeld(p, generatePhotoHash(Input(p).photo))
    \/ /\ pc[p] = "verify"
       /\ ~alreadyVerified(Cur(p), Input(p).user)
       /\ VerifKeyHeld(p, Cur(p).id, Input(p).user)
    \/ pc[p] = "update" /\ ReportLocked(p, Cur(p).id)
    \/ pc[p] = "award" /\ tx[p].todo # <<>> /\ RepLocked(p, Head(tx[p].todo))

\* Every request that ran at the same time as the request of handler p is
\* unrelated to it.
OnlyUnrelated(p) ==
    \A k \in 1..Len(reqs) : Overlap(tx[p].req, k) => Unrelated(tx[p].req, k)

\* Of two unrelated submissions with open transactions neither waits for
\* the other.
NeitherBlocks ==
    [](\A p \in Procs, q \in Procs :
          (/\ p # q /\ pc[p] # "idle" /\ OpenTx(q)
           /\ Unrelated(tx[p].req, tx[q].req))
              => ~Blocked(p))

\* A submission that ran only beside unrelated submissions fails only for
\* a cause of its own: two nearby reports of one author.
NeitherFails ==
    [][\A p \in Procs :
          (/\ pc[p] # "idle" /\ OnlyUnrelated(p)
           /\ reqs'[tx[p].req].code = 500)
              => pc[p] = "cross" /\ ~CrossUnique(p)]_vars

\* A submission that ran only beside unrelated submissions commits the rows,
\* statuses and score changes that it commits when run alone on the tables
\* it finds at its commit; the score changes are increments, so both orders
\* and every interleaving end in the same tables.
SameOutcome ==
    [][\A p \in Procs : (Commits(p) /\ OnlyUnrelated(p)) =>
          \A R \in {Len(reports) + 1}, near \in {NearbyOf(p)},
             crossing \in {Crossing(p)}, rows \in {RowsAdded(p, Len(reports) + 1)},
             given \in {[v \in Users |-> AwardsGiven(p, v)]} :
              /\ SeqToSet(verifs') = SeqToSet(verifs) \cup rows
              /\ \A N \in ReportIds :
                    reports'[N].status = IF N \in crossing THEN "VERIFIED"
                                         ELSE reports[N].status
              /\ reports'[R].status = IF near = {} THEN "UNVERIFIED"
                                      ELSE "VERIFIED"
              /\ \A v \in Users :
                    rep'[v].score
                       = rep[v].score + REPUTATION_PER_VERIFIED * given[v]]_vars

\* C34: submissions in unrelated clusters are independent: two submissions
\* of different users with different photos, outside the radius of each
\* other and with no nearby report in common, end in the same tables
\* whether they run at the same time or one after the other, and neither
\* blocks or fails the other.
C34_UnrelatedIndependent == NeitherBlocks /\ NeitherFails /\ SameOutcome

\* Two unrelated submissions have open transactions and each waits for a
\* reputation row the other has written.
MutualWait ==
    \E p \in Procs, q \in Procs :
        /\ p # q /\ OpenTx(p) /\ OpenTx(q)
        /\ Unrelated(tx[p].req, tx[q].req)
        /\ Blocked(p) /\ Blocked(q)

\* A read endpoint answers in this step.
ReadStep == mreqs' # mreqs

\* C35: the read endpoints change nothing: a step of getDumps, getDumpById,
\* getUserReputation, getHeatmap, getDensity or getVerifiedDumps leaves the
\* reports, verifications, photo hashes and reputation rows, and the
\* recycling tables, as they are; getUserReputation answers zeros for a
\* user without a row and creates none.
C35_ReadsChangeNothing ==
    /\ [][ReadStep => /\ UNCHANGED <<reports, verifs, photoHashes, rep, ledger>>
                      /\ DOMAIN rep' = DOMAIN rep]_vars
    /\ [](\A k \in 1..Len(mreqs) :
            (mreqs[k].endpoint = "getUserReputation"
                /\ mreqs[k].token \notin DOMAIN rep)
               => /\ mreqs[k].code = 200
                  /\ mreqs[k].reputation = NoReputation
                  /\ mreqs[k].error = "No reputation score found")

\* An account without a reputation row was answered zeros and still has no
\* row, and a getDumps request returned a report.
C35_Witness ==
    /\ \E k \in 1..Len(mreqs) :
          /\ mreqs[k].endpoint = "getUserReputation"
          /\ mreqs[k].token \notin DOMAIN rep
          /\ mreqs[k].reputation = NoReputation
    /\ \E k \in 1..Len(mreqs) :
          /\ mreqs[k].endpoint = "getDumps"
          /\ mreqs[k].dumps # {}
    /\ \E u \in Users : rep[u].score > 0

\* Requests j and k carry the same base64 payload, one of them bare and the
\* other as a data URL of one of the given media types, and j was accepted
\* before k was received.
SamePayloadAfter(j, k, types) ==
    /\ j \in reqs[k].prior
    /\ reqs[j].code = 201
    /\ reqs[j].photo.b64 = reqs[k].photo.b64
    /\ \/ reqs[j].photo.mime = "" /\ reqs[k].photo.mime \in types
       \/ reqs[k].photo.mime = "" /\ reqs[j].photo.mime \in types

\* The two payloads get the same fingerprint and the later request is
\* rejected as a duplicate photo.
RejectedAsDuplicate(j, k) ==
    /\ generatePhotoHash(reqs[j].photo) = generatePhotoHash(reqs[k].photo)
    /\ reqs[k].code = 400
    /\ reqs[k].error = "Photo already used"

\* C36: a payload sent as a bare base64 string and the same payload sent
\* with a 'data:image/<type>;base64,' prefix, of any image type, get the
\* same fingerprint: after one is accepted the other is rejected as a
\* duplicate photo.
C36_PrefixIgnored ==
    \A j, k \in 1..Len(reqs) :
        SamePayloadAfter(j, k, Mimes \cup {BadMime}) => RejectedAsDuplicate(j, k)

\* The same for the media types that are one word.
WordPrefixIgnored ==
    \A j, k \in 1..Len(reqs) :
        SamePayloadAfter(j, k, WordMimes) => RejectedAsDuplicate(j, k)

\* A payload was accepted bare and rejected as a duplicate when sent as a
\* jpeg data URL.
WordPrefixCase ==
    \E j, k \in 1..Len(reqs) :
        /\ SamePayloadAfter(j, k, WordMimes)
        /\ reqs[j].photo.mime = ""
        /\ RejectedAsDuplicate(j, k)

\* In this step report id changes from UNVERIFIED to VERIFIED: a stored
\* report's status changes, or the new report is committed VERIFIED (it is
\* created UNVERIFIED at line 59 and updated at line 187).
BecomesVerified(id) ==
    /\ id \in 1..Len(reports')
    /\ reports'[id].status = "VERIFIED"
    /\ id \in 1..Len(reports) => reports[id].status = "UNVERIFIED"

\* The reports that change to VERIFIED in this step with u among their
\* recorded verifiers.
VerifiedWith(u) ==
    {id \in 1..Len(reports') : BecomesVerified(id) /\ u \in Verifiers(id)'}

\* In this step u is recorded as a verifier of a report that was VERIFIED
\* before.
JoinsVerified(u, id) ==
    /\ id \in 1..Len(reports)
    /\ reports[id].status = "VERIFIED"
    /\ u \notin Verifiers(id)
    /\ u \in Verifiers(id)'

\* C37: with submissions handled one at a time, every step adds to each
\* user's score REPUTATION_PER_VERIFIED times the number of reports that
\* change from UNVERIFIED to VERIFIED in the step with the user among their
\* recorded verifiers; being recorded as verifier of a report that was
\* VERIFIED before adds nothing for that report.
C37_ScoreCountsTransitions ==
    [][\A u \in Users :
          /\ rep'[u].score =
                 rep[u].score + REPUTATION_PER_VERIFIED * Cardinality(VerifiedWith(u))
          /\ \A id \in 1..Len(reports) :
                 JoinsVerified(u, id) => AwardsFor(u, {id})' = 0]_vars

C37_Witness ==
    \E u \in Users :
        /\ rep[u].score = REPUTATION_PER_VERIFIED
        /\ Cardinality({id \in ReportIds : /\ reports[id].status = "VERIFIED"
                                           /\ u \in Verifiers(id)}) = 3
        /\ \E v \in Users : rep[v].score = 3 * REPUTATION_PER_VERIFIED

\* The rows of a recycling table that belong to declaration id.
RowsOf(table, id) == {n \in 1..Len(table) : table[n].declarationId = id}

RECURSIVE CreditsOf(_, _)
\* What the first n recycling transactions pay user u, as the collector or
\* as the citizen of their declaration.
CreditsOf(u, n) ==
    IF n = 0 THEN 0
    ELSE LET t == transactions[n]
             c == CHOOSE c \in SeqToSet(collections) :
                      c.declarationId = t.declarationId
         IN  CreditsOf(u, n - 1)
                 + (IF c.collectorId = u THEN t.collectorAmount ELSE 0)
                 + (IF declarations[t.declarationId].citizenId = u
                    THEN t.citizenAmount ELSE 0)

\* The balance of u's wallet, 0 without a wallet.
Balance(u) == IF wallets[u] = NoWallet THEN 0 ELSE wallets[u]

\* Requests j and k ran op on the same declaration, both passed the status
\* test and entered the transaction; j was answered 200 and k 500.
RacedOn(op, j, k) ==
    /\ rreqs[j].op = op
    /\ rreqs[k].op = op
    /\ rreqs[j].id = rreqs[k].id
    /\ rreqs[j].code = 200
    /\ rreqs[k].code = 500

PickupRaced ==
    \E j, k \in 1..Len(rreqs) :
        /\ RacedOn("pickup", j, k)
        /\ Cardinality(RowsOf(collections, rreqs[j].id)) = 1

\* No two of the submissions received so far are of the same user.
DistinctUsers ==
    \A j, k \in 1..Len(reqs) : j # k => reqs[j].user # reqs[k].user

\* The authors of the other committed reports within the radius of report X.
NeighbourAuthors(X) ==
    {reports[Y].reporterId :
        Y \in {Z \in ReportIds \ {X} : Clustered[reports[X].loc, reports[Z].loc]}}

\* C39: after submissions of pairwise distinct users with new photos,
\* handled one at a time in any order, the tables are a function of the set
\* of submissions: every submission is accepted, the verifiers of a report
\* are its author and the authors of the reports within the radius, one row
\* each, and a report is VERIFIED exactly when it has such a neighbour; two
\* reports within the radius of each other are mutually verified and
\* VERIFIED whichever came first.
C39_SerialOrderIndependent ==
    DistinctUsers =>
        /\ \A k \in 1..Len(reqs) : reqs[k].code \in {0, 201}
        /\ \A X \in ReportIds :
              /\ Verifiers(X) = {reports[X].reporterId} \cup NeighbourAuthors(X)
              /\ VerificationCount(X) = Cardinality(Verifiers(X))
              /\ reports[X].status = IF NeighbourAuthors(X) = {} THEN "UNVERIFIED"
                                     ELSE "VERIFIED"
        /\ \A X, Y \in ReportIds :
              X # Y /\ Clustered[reports[X].loc, reports[Y].loc] =>
                  /\ reports[X].reporterId \in Verifiers(Y)
                  /\ reports[Y].reporterId \in Verifiers(X)
                  /\ reports[X].status = "VERIFIED"
                  /\ reports[Y].status = "VERIFIED"

\* Three users reported at three points of the chain, the middle point
\* last or first: the middle report has three verifiers, the outer ones two,
\* and all are VERIFIED.
C39_Witness ==
    /\ DistinctUsers
    /\ Len(reports) = 3
    /\ \E X, Y, Z \in ReportIds :
          /\ X < Y
          /\ Clustered[reports[X].loc, reports[Z].loc]
          /\ Clustered[reports[Y].loc, reports[Z].loc]
          /\ ~Clustered[reports[X].loc, reports[Y].loc]
          /\ Cardinality(Verifiers(Z)) = 3
          /\ Cardinality(Verifiers(X)) = 2
          /\ \A W \in ReportIds : reports[W].status = "VERIFIED"

\* The witness with the middle report submitted first.
MiddleFirst ==
    /\ C39_Witness
    /\ Cardinality(Verifiers(1)) = 3

\* The witness with the middle report submitted last.
MiddleLast ==
    /\ C39_Witness
    /\ Cardinality(Verifiers(3)) = 3

\* The registry entries with fingerprint h.
EntriesOf(h) == {n \in 1..Len(photoHashes) : photoHashes[n].hash = h}

\* The reports with fingerprint h.
ReportsOf(h) == {id \in ReportIds : reports[id].photoHash = h}

\* C40: in every committed state each report's fingerprint has exactly one
\* registry entry, uploaded by the report's reporter, and every registry
\* entry is the fingerprint of exactly one report; a submission that created
\* no report left no entry.
C40_RegistryMatchesReports ==
    /\ \A id \in ReportIds :
          /\ Cardinality(EntriesOf(reports[id].photoHash)) = 1
          /\ \A n \in EntriesOf(reports[id].photoHash) :
                photoHashes[n].uploadedBy = reports[id].reporterId
    /\ \A n \in 1..Len(photoHashes) :
          Cardinality(ReportsOf(photoHashes[n].hash)) = 1
    /\ Len(photoHashes) = Cardinality({k \in 1..Len(reqs) : Created(k)})

\* Two reports with two registry entries were committed and one submission
\* was rolled back after its transaction had begun.
C40_Witness ==
    /\ Len(reports) = 2
    /\ Len(photoHashes) = 2
    /\ \E k \in 1..Len(reqs) : reqs[k].code = 500

\* One report with one registry entry was committed, one submission was
\* rolled back and one was rejected for a photo already used.
RejectedAndRolledBack ==
    /\ Len(reports) = 1
    /\ Len(photoHashes) = 1
    /\ \E k \in 1..Len(reqs) : reqs[k].code = 500
    /\ \E k \in 1..Len(reqs) :
          reqs[k].code = 400 /\ reqs[k].error = "Photo already used"

============================================================================
